---- MODULE Spec2Model ----
(***************************************************************************)
(* Model of autokeypress: the Runner (Start / Stop / IsRunning and the     *)
(* per-task executors of runTask) and the key-input resolution             *)
(* (parseMacInput on darwin, parseKeyInput on windows).                    *)
(*                                                                         *)
(* A Go string is modelled as the sequence of its Unicode code points      *)
(* (valid UTF-8 only); len(s) of the code is the UTF-8 byte length.        *)
(***************************************************************************)
EXTENDS Integers, Sequences, FiniteSets, TLC

VARIABLES
    platform,   \* build target: "darwin" (main_darwin.go) or "windows"
    input,      \* the string handed to parseMacInput / parseKeyInput
    result,     \* what the resolution returned for input
    entries,    \* the KeyEntry rows read by the Start button handler
    built,      \* tasks / errors collected by the Start button handler
    ui,         \* the window: "idle" (Add, Remove and Start enabled, Stop
                \* disabled), "starting" (the Start handler is inside
                \* runner.Start), "running" (only Stop enabled), "stopping"
                \* (the Stop handler is inside runner.Stop)
    mu,         \* Runner.mu: 0 when free, else the caller holding it
    running,    \* Runner.running
    stopCh,     \* Runner.stopCh: 0 is nil, else the identity of a channel
    closed,     \* the channels that have been closed
    made,       \* number of channels made so far (make(chan struct{}))
    given,      \* len(tasks) of the Start call that made the latest channel
    wg,         \* Runner.wg counter
    pc,         \* position of every caller thread
    todo,       \* per caller: tasks of the Start call still to launch
    sess,       \* per caller: channel made by its Start / closed by its Stop
    last,       \* per caller: "Start" once its Start call has returned,
                \* "Stop" once a Stop call has returned with no Start
                \* called since, "none" before and during a Start call
    ret,        \* per caller: what IsRunning returned since its last call
    exec        \* the executors (goroutines running runTask)

vars == <<platform, input, result, entries, built, ui, mu, running, stopCh,
          closed, made, given, wg, pc, todo, sess, last, ret, exec>>

resolverVars == <<input, result, entries, built>>
others == <<platform, input, result, entries, built, ui>>
runnerVars == <<mu, running, stopCh, closed, made, given, wg, pc, todo, sess,
                last, ret, exec>>

Platforms == {"darwin", "windows"}

(***************************************************************************)
(* Bounds of the model.                                                    *)
(***************************************************************************)
MaxLen == 2        \* longest string built freely over Alphabet
MaxPad == 1        \* most whitespace added on each side of an input
MaxMS == 2         \* largest IntervalMS of an entry
MaxExec == 2       \* most executors launched in one run of the model
MaxSessions == 2   \* most channels made, i.e. Start calls that take effect

(***************************************************************************)
(* Strings.                                                                *)
(***************************************************************************)
\* unicode.IsSpace: the code points with the property White_Space
IsSpace(c) ==
    \/ c \in {9, 10, 11, 12, 13, 32, 133, 160, 5760, 8232, 8233, 8239, 8287, 12288}
    \/ (c >= 8192 /\ c <= 8202)

RECURSIVE TrimLeft(_)
TrimLeft(s) ==
    IF s # <<>> /\ IsSpace(Head(s)) THEN TrimLeft(Tail(s)) ELSE s

RECURSIVE TrimRight(_)
TrimRight(s) ==
    IF s # <<>> /\ IsSpace(s[Len(s)])
    THEN TrimRight(SubSeq(s, 1, Len(s) - 1))
    ELSE s

\* strings.TrimSpace
TrimSpace(s) == TrimRight(TrimLeft(s))

\* the upper-case mappings of unicode.ToUpper above ASCII (the table
\* unicode.CaseRanges, Unicode 15): <<lo, hi, stride, delta>> maps every
\* code point lo, lo + stride, ... up to hi to itself plus delta
UpperRanges ==
    {<<181, 181, 1, 743>>, <<224, 246, 1, -32>>, <<248, 254, 1, -32>>,
     <<255, 255, 1, 121>>, <<257, 303, 2, -1>>, <<305, 305, 1, -232>>,
     <<307, 311, 2, -1>>, <<314, 328, 2, -1>>, <<331, 375, 2, -1>>,
     <<378, 382, 2, -1>>, <<383, 383, 1, -300>>, <<384, 384, 1, 195>>,
     <<387, 389, 2, -1>>, <<392, 392, 1, -1>>, <<396, 396, 1, -1>>,
     <<402, 402, 1, -1>>, <<405, 405, 1, 97>>, <<409, 409, 1, -1>>,
     <<410, 410, 1, 163>>, <<414, 414, 1, 130>>, <<417, 421, 2, -1>>,
     <<424, 424, 1, -1>>, <<429, 429, 1, -1>>, <<432, 432, 1, -1>>,
     <<436, 438, 2, -1>>, <<441, 441, 1, -1>>, <<445, 445, 1, -1>>,
     <<447, 447, 1, 56>>, <<453, 453, 1, -1>>, <<454, 454, 1, -2>>,
     <<456, 456, 1, -1>>, <<457, 457, 1, -2>>, <<459, 459, 1, -1>>,
     <<460, 460, 1, -2>>, <<462, 476, 2, -1>>, <<477, 477, 1, -79>>,
     <<479, 495, 2, -1>>, <<498, 498, 1, -1>>, <<499, 499, 1, -2>>,
     <<501, 501, 1, -1>>, <<505, 543, 2, -1>>, <<547, 563, 2, -1>>,
     <<572, 572, 1, -1>>, <<575, 576, 1, 10815>>, <<578, 578, 1, -1>>,
     <<583, 591, 2, -1>>, <<592, 592, 1, 10783>>, <<593, 593, 1, 10780>>,
     <<594, 594, 1, 10782>>, <<595, 595, 1, -210>>, <<596, 596, 1, -206>>,
     <<598, 599, 1, -205>>, <<601, 601, 1, -202>>, <<603, 603, 1, -203>>,
     <<604, 604, 1, 42319>>, <<608, 608, 1, -205>>, <<609, 609, 1, 42315>>,
     <<611, 611, 1, -207>>, <<613, 613, 1, 42280>>, <<614, 614, 1, 42308>>,
     <<616, 616, 1, -209>>, <<617, 617, 1, -211>>, <<618, 618, 1, 42308>>,
     <<619, 619, 1, 10743>>, <<620, 620, 1, 42305>>, <<623, 623, 1, -211>>,
     <<625, 625, 1, 10749>>, <<626, 626, 1, -213>>, <<629, 629, 1, -214>>,
     <<637, 637, 1, 10727>>, <<640, 640, 1, -218>>, <<642, 642, 1, 42307>>,
     <<643, 643, 1, -218>>, <<647, 647, 1, 42282>>, <<648, 648, 1, -218>>,
     <<649, 649, 1, -69>>, <<650, 651, 1, -217>>, <<652, 652, 1, -71>>,
     <<658, 658, 1, -219>>, <<669, 669, 1, 42261>>, <<670, 670, 1, 42258>>,
     <<837, 837, 1, 84>>, <<881, 883, 2, -1>>, <<887, 887, 1, -1>>,
     <<891, 893, 1, 130>>, <<940, 940, 1, -38>>, <<941, 943, 1, -37>>,
     <<945, 961, 1, -32>>, <<962, 962, 1, -31>>, <<963, 971, 1, -32>>,
     <<972, 972, 1, -64>>, <<973, 974, 1, -63>>, <<976, 976, 1, -62>>,
     <<977, 977, 1, -57>>, <<981, 981, 1, -47>>, <<982, 982, 1, -54>>,
     <<983, 983, 1, -8>>, <<985, 1007, 2, -1>>, <<1008, 1008, 1, -86>>,
     <<1009, 1009, 1, -80>>, <<1010, 1010, 1, 7>>, <<1011, 1011, 1, -116>>,
     <<1013, 1013, 1, -96>>, <<1016, 1016, 1, -1>>, <<1019, 1019, 1, -1>>,
     <<1072, 1103, 1, -32>>, <<1104, 1119, 1, -80>>, <<1121, 1153, 2, -1>>,
     <<1163, 1215, 2, -1>>, <<1218, 1230, 2, -1>>, <<1231, 1231, 1, -15>>,
     <<1233, 1327, 2, -1>>, <<1377, 1414, 1, -48>>,
     <<4304, 4346, 1, 3008>>, <<4349, 4351, 1, 3008>>,
     <<5112, 5117, 1, -8>>, <<7296, 7296, 1, -6254>>,
     <<7297, 7297, 1, -6253>>, <<7298, 7298, 1, -6244>>,
     <<7299, 7300, 1, -6242>>, <<7301, 7301, 1, -6243>>,
     <<7302, 7302, 1, -6236>>, <<7303, 7303, 1, -6181>>,
     <<7304, 7304, 1, 35266>>, <<7545, 7545, 1, 35332>>,
     <<7549, 7549, 1, 3814>>, <<7566, 7566, 1, 35384>>,
     <<7681, 7829, 2, -1>>, <<7835, 7835, 1, -59>>, <<7841, 7935, 2, -1>>,
     <<7936, 7943, 1, 8>>, <<7952, 7957, 1, 8>>, <<7968, 7975, 1, 8>>,
     <<7984, 7991, 1, 8>>, <<8000, 8005, 1, 8>>, <<8017, 8023, 2, 8>>,
     <<8032, 8039, 1, 8>>, <<8048, 8049, 1, 74>>, <<8050, 8053, 1, 86>>,
     <<8054, 8055, 1, 100>>, <<8056, 8057, 1, 128>>,
     <<8058, 8059, 1, 112>>, <<8060, 8061, 1, 126>>, <<8064, 8071, 1, 8>>,
     <<8080, 8087, 1, 8>>, <<8096, 8103, 1, 8>>, <<8112, 8113, 1, 8>>,
     <<8115, 8115, 1, 9>>, <<8126, 8126, 1, -7205>>, <<8131, 8131, 1, 9>>,
     <<8144, 8145, 1, 8>>, <<8160, 8161, 1, 8>>, <<8165, 8165, 1, 7>>,
     <<8179, 8179, 1, 9>>, <<8526, 8526, 1, -28>>, <<8560, 8575, 1, -16>>,
     <<8580, 8580, 1, -1>>, <<9424, 9449, 1, -26>>,
     <<11312, 11359, 1, -48>>, <<11361, 11361, 1, -1>>,
     <<11365, 11365, 1, -10795>>, <<11366, 11366, 1, -10792>>,
     <<11368, 11372, 2, -1>>, <<11379, 11379, 1, -1>>,
     <<11382, 11382, 1, -1>>, <<11393, 11491, 2, -1>>,
     <<11500, 11502, 2, -1>>, <<11507, 11507, 1, -1>>,
     <<11520, 11557, 1, -7264>>, <<11559, 11559, 1, -7264>>,
     <<11565, 11565, 1, -7264>>, <<42561, 42605, 2, -1>>,
     <<42625, 42651, 2, -1>>, <<42787, 42799, 2, -1>>,
     <<42803, 42863, 2, -1>>, <<42874, 42876, 2, -1>>,
     <<42879, 42887, 2, -1>>, <<42892, 42892, 1, -1>>,
     <<42897, 42899, 2, -1>>, <<42900, 42900, 1, 48>>,
     <<42903, 42921, 2, -1>>, <<42933, 42947, 2, -1>>,
     <<42952, 42954, 2, -1>>, <<42961, 42961, 1, -1>>,
     <<42967, 42969, 2, -1>>, <<42998, 42998, 1, -1>>,
     <<43859, 43859, 1, -928>>, <<43888, 43967, 1, -38864>>,
     <<65345, 65370, 1, -32>>, <<66600, 66639, 1, -40>>,
     <<66776, 66811, 1, -40>>, <<66967, 66977, 1, -39>>,
     <<66979, 66993, 1, -39>>, <<66995, 67001, 1, -39>>,
     <<67003, 67004, 1, -39>>, <<68800, 68850, 1, -64>>,
     <<71872, 71903, 1, -32>>, <<93792, 93823, 1, -32>>,
     <<125218, 125251, 1, -34>>}

\* unicode.ToUpper
ToUpperRune(c) ==
    IF c < 128 THEN IF c >= 97 /\ c <= 122 THEN c - 32 ELSE c
    ELSE LET rs == {r \in UpperRanges :
                        c >= r[1] /\ c <= r[2] /\ (c - r[1]) % r[3] = 0}
         IN  IF rs = {} THEN c ELSE c + (CHOOSE r \in rs : TRUE)[4]

\* a ToUpper that leaves the string as it is
ToUpper_Unchanged(s) == s

\* strings.ToUpper
ToUpper(s) == [i \in DOMAIN s |-> ToUpperRune(s[i])]

\* number of bytes of the UTF-8 encoding of one code point
RuneLen(c) ==
    IF c < 128 THEN 1
    ELSE IF c < 2048 THEN 2
    ELSE IF c < 65536 THEN 3
    ELSE 4

\* len(s) of a Go string: its length in bytes
RECURSIVE ByteLen(_)
ByteLen(s) == IF s = <<>> THEN 0 ELSE RuneLen(Head(s)) + ByteLen(Tail(s))

(***************************************************************************)
(* The key names of the switch statements, as code point sequences.        *)
(***************************************************************************)
SPACE == <<83, 80, 65, 67, 69>>
ENTER == <<69, 78, 84, 69, 82>>
ESC == <<69, 83, 67>>
ESCAPE == <<69, 83, 67, 65, 80, 69>>
TAB == <<84, 65, 66>>
UP == <<85, 80>>
DOWN == <<68, 79, 87, 78>>
LEFT == <<76, 69, 70, 84>>
RIGHT == <<82, 73, 71, 72, 84>>
F1 == <<70, 49>>
F2 == <<70, 50>>
F3 == <<70, 51>>
F4 == <<70, 52>>
F5 == <<70, 53>>
F6 == <<70, 54>>
F7 == <<70, 55>>
F8 == <<70, 56>>
F9 == <<70, 57>>
F10 == <<70, 49, 48>>
F11 == <<70, 49, 49>>
F12 == <<70, 49, 50>>

FunctionKeys == {F1, F2, F3, F4, F5, F6, F7, F8, F9, F10, F11, F12}

(***************************************************************************)
(* Go's int (on the 64-bit builds), int64 and time.Duration: integers of   *)
(* 64 bits in two's complement.  A value is written as its four 16-bit     *)
(* limbs, the least significant first, so that the arithmetic wraps modulo *)
(* 2^64 as it does in Go: 1000 is <<1000, 0, 0, 0>>, -1 is                 *)
(* <<65535, 65535, 65535, 65535>>.                                         *)
(***************************************************************************)
\* the carry out of the most significant limb when the limbs of s, which
\* may exceed 16 bits, are brought back to 16 bits each
Carry64(s) ==
    LET k1 == s[2] + (s[1] \div 65536)
        k2 == s[3] + (k1 \div 65536)
        k3 == s[4] + (k2 \div 65536)
    IN  k3 \div 65536

\* s[1] + s[2] * 2^16 + s[3] * 2^32 + s[4] * 2^48 modulo 2^64
Wrap64(s) ==
    LET k1 == s[2] + (s[1] \div 65536)
        k2 == s[3] + (k1 \div 65536)
        k3 == s[4] + (k2 \div 65536)
    IN  <<s[1] % 65536, k1 % 65536, k2 % 65536, k3 % 65536>>

\* -a
Neg64(a) == Wrap64(<<65536 - a[1], 65535 - a[2], 65535 - a[3], 65535 - a[4]>>)

\* the 64-bit integer of a small number n of the model
Int64(n) ==
    IF n >= 0 THEN Wrap64(<<n, 0, 0, 0>>) ELSE Neg64(Wrap64(<<0 - n, 0, 0, 0>>))

\* a * b, wrapping.  The factor b of the code is time.Millisecond, below
\* 2^32 with limbs that add up to less than 2^15: the sums of limb products
\* stay below 2^31
Mul64(a, b) ==
    Wrap64(<<a[1] * b[1],
             a[1] * b[2] + a[2] * b[1],
             a[1] * b[3] + a[2] * b[2] + a[3] * b[1],
             a[1] * b[4] + a[2] * b[3] + a[3] * b[2] + a[4] * b[1]>>)

\* a < 0: the sign bit is set
Negative(a) == a[4] >= 32768

\* a > 0
Positive(a) == ~Negative(a) /\ a # <<0, 0, 0, 0>>

(***************************************************************************)
(* KeyTask and errors.                                                     *)
(***************************************************************************)
\* the zero value of KeyTask.KeyCode: the number 0 on darwin (C.CGKeyCode);
\* on windows the codes are the constants keybd_event.VK_* of an external
\* library, kept by name, and the zero int is written "0"
ZeroKeyCode(p) == IF p = "darwin" THEN 0 ELSE "0"

\* KeyTask{}
ZeroTask(p) ==
    [KeyCode |-> ZeroKeyCode(p), UnicodeRune |-> 0, UseUnicode |-> FALSE,
     Interval |-> Int64(0)]

\* KeyTask{KeyCode: code}
KeyCodeTask(p, code) == [ZeroTask(p) EXCEPT !.KeyCode = code]

\* KeyTask{UnicodeRune: r, UseUnicode: true}
UnicodeTask(p, r) ==
    [ZeroTask(p) EXCEPT !.UnicodeRune = r, !.UseUnicode = TRUE]

\* a nil error
NilError == [isNil |-> TRUE, format |-> "", arg |-> <<>>]

\* fmt.Errorf(format, arg)
Errorf(format, arg) == [isNil |-> FALSE, format |-> format, arg |-> arg]

Return(task, err) == [task |-> task, err |-> err]

(***************************************************************************)
(* darwin: parseMacInput and its key-code tables.                          *)
(***************************************************************************)
\* macLetterKeyCode(ch): ch is one byte
macLetterKeyCode(ch) ==
    CASE ch = 65 -> [code |-> 0, ok |-> TRUE]
      [] ch = 66 -> [code |-> 11, ok |-> TRUE]
      [] ch = 67 -> [code |-> 8, ok |-> TRUE]
      [] ch = 68 -> [code |-> 2, ok |-> TRUE]
      [] ch = 69 -> [code |-> 14, ok |-> TRUE]
      [] ch = 70 -> [code |-> 3, ok |-> TRUE]
      [] ch = 71 -> [code |-> 5, ok |-> TRUE]
      [] ch = 72 -> [code |-> 4, ok |-> TRUE]
      [] ch = 73 -> [code |-> 34, ok |-> TRUE]
      [] ch = 74 -> [code |-> 38, ok |-> TRUE]
      [] ch = 75 -> [code |-> 40, ok |-> TRUE]
      [] ch = 76 -> [code |-> 37, ok |-> TRUE]
      [] ch = 77 -> [code |-> 46, ok |-> TRUE]
      [] ch = 78 -> [code |-> 45, ok |-> TRUE]
      [] ch = 79 -> [code |-> 31, ok |-> TRUE]
      [] ch = 80 -> [code |-> 35, ok |-> TRUE]
      [] ch = 81 -> [code |-> 12, ok |-> TRUE]
      [] ch = 82 -> [code |-> 15, ok |-> TRUE]
      [] ch = 83 -> [code |-> 1, ok |-> TRUE]
      [] ch = 84 -> [code |-> 17, ok |-> TRUE]
      [] ch = 85 -> [code |-> 32, ok |-> TRUE]
      [] ch = 86 -> [code |-> 9, ok |-> TRUE]
      [] ch = 87 -> [code |-> 13, ok |-> TRUE]
      [] ch = 88 -> [code |-> 7, ok |-> TRUE]
      [] ch = 89 -> [code |-> 16, ok |-> TRUE]
      [] ch = 90 -> [code |-> 6, ok |-> TRUE]
      [] OTHER -> [code |-> 0, ok |-> FALSE]

\* macDigitKeyCode(ch)
macDigitKeyCode(ch) ==
    CASE ch = 48 -> [code |-> 29, ok |-> TRUE]
      [] ch = 49 -> [code |-> 18, ok |-> TRUE]
      [] ch = 50 -> [code |-> 19, ok |-> TRUE]
      [] ch = 51 -> [code |-> 20, ok |-> TRUE]
      [] ch = 52 -> [code |-> 21, ok |-> TRUE]
      [] ch = 53 -> [code |-> 23, ok |-> TRUE]
      [] ch = 54 -> [code |-> 22, ok |-> TRUE]
      [] ch = 55 -> [code |-> 26, ok |-> TRUE]
      [] ch = 56 -> [code |-> 28, ok |-> TRUE]
      [] ch = 57 -> [code |-> 25, ok |-> TRUE]
      [] OTHER -> [code |-> 0, ok |-> FALSE]

\* macFunctionKeyCode(key)
macFunctionKeyCode(key) ==
    CASE key = F1 -> [code |-> 122, err |-> NilError]
      [] key = F2 -> [code |-> 120, err |-> NilError]
      [] key = F3 -> [code |-> 99, err |-> NilError]
      [] key = F4 -> [code |-> 118, err |-> NilError]
      [] key = F5 -> [code |-> 96, err |-> NilError]
      [] key = F6 -> [code |-> 97, err |-> NilError]
      [] key = F7 -> [code |-> 98, err |-> NilError]
      [] key = F8 -> [code |-> 100, err |-> NilError]
      [] key = F9 -> [code |-> 101, err |-> NilError]
      [] key = F10 -> [code |-> 109, err |-> NilError]
      [] key = F11 -> [code |-> 103, err |-> NilError]
      [] key = F12 -> [code |-> 111, err |-> NilError]
      [] OTHER -> [code |-> 0, err |-> Errorf("unsupported key: %s", key)]

\* case "F1", "F2", ..., "F12" of the switch of parseMacInput
macFunctionCases == {F1, F2, F3, F4, F5, F6, F7, F8, F9, F10, F11, F12}

\* the switch on key of parseMacInput (the named keys)
macNamedKey(key, in) ==
    CASE key = SPACE -> Return(KeyCodeTask("darwin", 49), NilError)
      [] key = ENTER -> Return(KeyCodeTask("darwin", 36), NilError)
      [] key \in {ESC, ESCAPE} -> Return(KeyCodeTask("darwin", 53), NilError)
      [] key = TAB -> Return(KeyCodeTask("darwin", 48), NilError)
      [] key = UP -> Return(KeyCodeTask("darwin", 126), NilError)
      [] key = DOWN -> Return(KeyCodeTask("darwin", 125), NilError)
      [] key = LEFT -> Return(KeyCodeTask("darwin", 123), NilError)
      [] key = RIGHT -> Return(KeyCodeTask("darwin", 124), NilError)
      [] key \in macFunctionCases ->
            LET f == macFunctionKeyCode(key) IN
            IF ~f.err.isNil
            THEN Return(ZeroTask("darwin"), f.err)
            ELSE Return(KeyCodeTask("darwin", f.code), NilError)
      [] OTHER ->
            Return(ZeroTask("darwin"), Errorf("unsupported key: %s", in))

\* the block "if len(key) == 1" of parseMacInput: the letter and digit
\* tables, tried on the first byte of key; found is FALSE when the block
\* falls through to the switch
macLetterDigit(key) ==
    IF ByteLen(key) # 1
    THEN [found |-> FALSE, code |-> 0]
    ELSE LET ch == key[1]
             l == macLetterKeyCode(ch)
             d == macDigitKeyCode(ch)
         IN  IF l.ok THEN [found |-> TRUE, code |-> l.code]
             ELSE IF d.ok THEN [found |-> TRUE, code |-> d.code]
             ELSE [found |-> FALSE, code |-> 0]

\* a parseMacInput that takes the rune from the upper-cased key
parseMacInput_RuneOfKey(in) ==
    LET key == ToUpper(TrimSpace(in))
        runes == TrimSpace(in)
        ld == macLetterDigit(key)
    IN  IF key = <<>>
        THEN Return(ZeroTask("darwin"), Errorf("empty key", <<>>))
        ELSE IF Len(runes) = 1
        THEN Return(UnicodeTask("darwin", key[1]), NilError)
        ELSE IF ld.found
        THEN Return(KeyCodeTask("darwin", ld.code), NilError)
        ELSE macNamedKey(key, in)

\* a parseMacInput whose one-character rule looks at the untrimmed input
parseMacInput_RunesUntrimmed(in) ==
    LET key == ToUpper(TrimSpace(in))
        runes == in
        ld == macLetterDigit(key)
    IN  IF key = <<>>
        THEN Return(ZeroTask("darwin"), Errorf("empty key", <<>>))
        ELSE IF Len(runes) = 1
        THEN Return(UnicodeTask("darwin", runes[1]), NilError)
        ELSE IF ld.found
        THEN Return(KeyCodeTask("darwin", ld.code), NilError)
        ELSE macNamedKey(key, in)

\* parseMacInput(input)
parseMacInput(in) ==
    LET key == ToUpper(TrimSpace(in))
        runes == TrimSpace(in)
        ld == macLetterDigit(key)
    IN  IF key = <<>>
        THEN Return(ZeroTask("darwin"), Errorf("empty key", <<>>))
        ELSE IF Len(runes) = 1
        THEN Return(UnicodeTask("darwin", runes[1]), NilError)
        ELSE IF ld.found
        THEN Return(KeyCodeTask("darwin", ld.code), NilError)
        ELSE macNamedKey(key, in)

(***************************************************************************)
(* windows: parseKeyInput.                                                 *)
(***************************************************************************)
\* the switch on key[0] of parseKeyInput: keybd_event.VK_A .. VK_Z and
\* VK_0 .. VK_9, by name
winLetterDigit(key) ==
    IF ByteLen(key) # 1
    THEN [found |-> FALSE, code |-> "0"]
    ELSE LET ch == key[1] IN
         CASE ch = 65 -> [found |-> TRUE, code |-> "VK_A"]
           [] ch = 66 -> [found |-> TRUE, code |-> "VK_B"]
           [] ch = 67 -> [found |-> TRUE, code |-> "VK_C"]
           [] ch = 68 -> [found |-> TRUE, code |-> "VK_D"]
           [] ch = 69 -> [found |-> TRUE, code |-> "VK_E"]
           [] ch = 70 -> [found |-> TRUE, code |-> "VK_F"]
           [] ch = 71 -> [found |-> TRUE, code |-> "VK_G"]
           [] ch = 72 -> [found |-> TRUE, code |-> "VK_H"]
           [] ch = 73 -> [found |-> TRUE, code |-> "VK_I"]
           [] ch = 74 -> [found |-> TRUE, code |-> "VK_J"]
           [] ch = 75 -> [found |-> TRUE, code |-> "VK_K"]
           [] ch = 76 -> [found |-> TRUE, code |-> "VK_L"]
           [] ch = 77 -> [found |-> TRUE, code |-> "VK_M"]
           [] ch = 78 -> [found |-> TRUE, code |-> "VK_N"]
           [] ch = 79 -> [found |-> TRUE, code |-> "VK_O"]
           [] ch = 80 -> [found |-> TRUE, code |-> "VK_P"]
           [] ch = 81 -> [found |-> TRUE, code |-> "VK_Q"]
           [] ch = 82 -> [found |-> TRUE, code |-> "VK_R"]
           [] ch = 83 -> [found |-> TRUE, code |-> "VK_S"]
           [] ch = 84 -> [found |-> TRUE, code |-> "VK_T"]
           [] ch = 85 -> [found |-> TRUE, code |-> "VK_U"]
           [] ch = 86 -> [found |-> TRUE, code |-> "VK_V"]
           [] ch = 87 -> [found |-> TRUE, code |-> "VK_W"]
           [] ch = 88 -> [found |-> TRUE, code |-> "VK_X"]
           [] ch = 89 -> [found |-> TRUE, code |-> "VK_Y"]
           [] ch = 90 -> [found |-> TRUE, code |-> "VK_Z"]
           [] ch = 48 -> [found |-> TRUE, code |-> "VK_0"]
           [] ch = 49 -> [found |-> TRUE, code |-> "VK_1"]
           [] ch = 50 -> [found |-> TRUE, code |-> "VK_2"]
           [] ch = 51 -> [found |-> TRUE, code |-> "VK_3"]
           [] ch = 52 -> [found |-> TRUE, code |-> "VK_4"]
           [] ch = 53 -> [found |-> TRUE, code |-> "VK_5"]
           [] ch = 54 -> [found |-> TRUE, code |-> "VK_6"]
           [] ch = 55 -> [found |-> TRUE, code |-> "VK_7"]
           [] ch = 56 -> [found |-> TRUE, code |-> "VK_8"]
           [] ch = 57 -> [found |-> TRUE, code |-> "VK_9"]
           [] OTHER -> [found |-> FALSE, code |-> "0"]

\* the switch on key of parseKeyInput (the named keys)
winNamedKey(key, in) ==
    CASE key = SPACE -> Return(KeyCodeTask("windows", "VK_SPACE"), NilError)
      [] key = ENTER -> Return(KeyCodeTask("windows", "VK_ENTER"), NilError)
      [] key \in {ESC, ESCAPE} ->
            Return(KeyCodeTask("windows", "VK_ESC"), NilError)
      [] key = TAB -> Return(KeyCodeTask("windows", "VK_TAB"), NilError)
      [] key = UP -> Return(KeyCodeTask("windows", "VK_UP"), NilError)
      [] key = DOWN -> Return(KeyCodeTask("windows", "VK_DOWN"), NilError)
      [] key = LEFT -> Return(KeyCodeTask("windows", "VK_LEFT"), NilError)
      [] key = RIGHT -> Return(KeyCodeTask("windows", "VK_RIGHT"), NilError)
      [] key = F1 -> Return(KeyCodeTask("windows", "VK_F1"), NilError)
      [] key = F2 -> Return(KeyCodeTask("windows", "VK_F2"), NilError)
      [] key = F3 -> Return(KeyCodeTask("windows", "VK_F3"), NilError)
      [] key = F4 -> Return(KeyCodeTask("windows", "VK_F4"), NilError)
      [] key = F5 -> Return(KeyCodeTask("windows", "VK_F5"), NilError)
      [] key = F6 -> Return(KeyCodeTask("windows", "VK_F6"), NilError)
      [] key = F7 -> Return(KeyCodeTask("windows", "VK_F7"), NilError)
      [] key = F8 -> Return(KeyCodeTask("windows", "VK_F8"), NilError)
      [] key = F9 -> Return(KeyCodeTask("windows", "VK_F9"), NilError)
      [] key = F10 -> Return(KeyCodeTask("windows", "VK_F10"), NilError)
      [] key = F11 -> Return(KeyCodeTask("windows", "VK_F11"), NilError)
      [] key = F12 -> Return(KeyCodeTask("windows", "VK_F12"), NilError)
      [] OTHER ->
            Return(ZeroTask("windows"), Errorf("unsupported key: %s", in))

\* a parseKeyInput whose error carries the trimmed, upper-cased key
parseKeyInput_KeyInError(in) ==
    LET key == ToUpper(TrimSpace(in))
        runes == TrimSpace(in)
        ld == winLetterDigit(key)
    IN  IF key = <<>>
        THEN Return(ZeroTask("windows"), Errorf("empty key", <<>>))
        ELSE IF Len(runes) = 1
        THEN Return(UnicodeTask("windows", runes[1]), NilError)
        ELSE IF ld.found
        THEN Return(KeyCodeTask("windows", ld.code), NilError)
        ELSE winNamedKey(key, key)

\* a parseKeyInput that tries the letter and digit codes first
parseKeyInput_LetterDigitFirst(in) ==
    LET key == ToUpper(TrimSpace(in))
        runes == TrimSpace(in)
        ld == winLetterDigit(key)
    IN  IF key = <<>>
        THEN Return(ZeroTask("windows"), Errorf("empty key", <<>>))
        ELSE IF ld.found
        THEN Return(KeyCodeTask("windows", ld.code), NilError)
        ELSE IF Len(runes) = 1
        THEN Return(UnicodeTask("windows", runes[1]), NilError)
        ELSE winNamedKey(key, in)

\* parseKeyInput(input)
parseKeyInput(in) ==
    LET key == ToUpper(TrimSpace(in))
        runes == TrimSpace(in)
        ld == winLetterDigit(key)
    IN  IF key = <<>>
        THEN Return(ZeroTask("windows"), Errorf("empty key", <<>>))
        ELSE IF Len(runes) = 1
        THEN Return(UnicodeTask("windows", runes[1]), NilError)
        ELSE IF ld.found
        THEN Return(KeyCodeTask("windows", ld.code), NilError)
        ELSE winNamedKey(key, in)

\* the resolution of the build: parseMacInput or parseKeyInput
Resolve(p, in) == IF p = "darwin" THEN parseMacInput(in) ELSE parseKeyInput(in)

(***************************************************************************)
(* The Start button handler: from the KeyEntry rows to the task list.      *)
(***************************************************************************)
\* time.Millisecond, in nanoseconds (the unit of time.Duration)
Millisecond == 1000000

\* the test that skips an entry: the loop of the darwin handler and
\* KeyTableModel.EnabledEntries on windows
Skipped(e) == ~e.Enabled \/ ~Positive(e.IntervalMS) \/ TrimSpace(e.Key) = <<>>

\* KeyTask{KeyCode: task.KeyCode, UnicodeRune: task.UnicodeRune,
\*         UseUnicode: task.UseUnicode,
\*         Interval: time.Duration(entry.IntervalMS) * time.Millisecond}
\* (the conversion of an int to a Duration keeps its 64 bits; the product
\* wraps)
BuildTask(task, e) ==
    [task EXCEPT !.Interval = Mul64(e.IntervalMS, Int64(Millisecond))]

\* a loop over the entries that stops at the first key that fails to
\* resolve
RECURSIVE Collect_StopsAtError(_, _, _, _)
Collect_StopsAtError(p, es, tasks, errors) ==
    IF es = <<>> THEN [tasks |-> tasks, errors |-> errors]
    ELSE LET e == Head(es)
             r == Resolve(p, e.Key)
         IN  IF Skipped(e) THEN Collect_StopsAtError(p, Tail(es), tasks, errors)
             ELSE IF ~r.err.isNil
             THEN [tasks |-> tasks, errors |-> Append(errors, r.err)]
             ELSE Collect_StopsAtError(p, Tail(es),
                                       Append(tasks, BuildTask(r.task, e)),
                                       errors)

\* the loop over the entries: tasks and errors collected in order
RECURSIVE Collect(_, _, _, _)
Collect(p, es, tasks, errors) ==
    IF es = <<>> THEN [tasks |-> tasks, errors |-> errors]
    ELSE LET e == Head(es)
             r == Resolve(p, e.Key)
         IN  IF Skipped(e) THEN Collect(p, Tail(es), tasks, errors)
             ELSE IF ~r.err.isNil
             THEN Collect(p, Tail(es), tasks, Append(errors, r.err))
             ELSE Collect(p, Tail(es), Append(tasks, BuildTask(r.task, e)),
                          errors)

\* windows: KeyTableModel.EnabledEntries, the rows that are not skipped
RECURSIVE EnabledEntries(_)
EnabledEntries(items) ==
    IF items = <<>> THEN <<>>
    ELSE LET entry == Head(items) IN
         IF entry.Enabled /\ Positive(entry.IntervalMS) /\ TrimSpace(entry.Key) # <<>>
         THEN <<entry>> \o EnabledEntries(Tail(items))
         ELSE EnabledEntries(Tail(items))

\* windows: the loop of the Start handler over model.EnabledEntries()
RECURSIVE CollectEnabled(_, _, _)
CollectEnabled(es, tasks, errors) ==
    IF es = <<>> THEN [tasks |-> tasks, errors |-> errors]
    ELSE LET e == Head(es)
             r == parseKeyInput(e.Key)
         IN  IF ~r.err.isNil
             THEN CollectEnabled(Tail(es), tasks, Append(errors, r.err))
             ELSE CollectEnabled(Tail(es), Append(tasks, BuildTask(r.task, e)),
                                 errors)

\* the Start button handler on an idle runner: what it collected, and
\* whether it went on to call runner.Start(tasks).  On windows the handler
\* returns when model.EnabledEntries() is empty, before its loop
StartHandler(p, es) ==
    LET c == IF p = "darwin" THEN Collect(p, es, <<>>, <<>>)
             ELSE IF EnabledEntries(es) = <<>>
             THEN [tasks |-> <<>>, errors |-> <<>>]
             ELSE CollectEnabled(EnabledEntries(es), <<>>, <<>>)
    IN  [tasks |-> c.tasks, errors |-> c.errors, started |-> c.tasks # <<>>]

(***************************************************************************)
(* The inputs the resolution is applied to.                                *)
(***************************************************************************)
\* A a 5, space and tab, e-acute (2 bytes), dotless i and long s (upper
\* case I and S), the euro sign (3 bytes), an emoji (4 bytes)
Alphabet == {65, 97, 53, 32, 9, 233, 305, 383, 8364, 128512}

RECURSIVE StringsUpTo(_)
StringsUpTo(n) ==
    IF n = 0 THEN {<<>>}
    ELSE LET shorter == StringsUpTo(n - 1) IN
         shorter \cup {Append(s, c) : s \in {t \in shorter : Len(t) = n - 1},
                                      c \in Alphabet}

NamedKeys ==
    {SPACE, ENTER, ESC, ESCAPE, TAB, UP, DOWN, LEFT, RIGHT} \cup FunctionKeys

\* an upper-case ASCII letter in lower case, other code points unchanged
ToLowerAscii(c) == IF c >= 65 /\ c <= 90 THEN c + 32 ELSE c

\* every spelling of name in a mix of upper and lower case
RECURSIVE CaseMixes(_)
CaseMixes(name) ==
    IF name = <<>> THEN {<<>>}
    ELSE {<<c>> \o rest : c \in {Head(name), ToLowerAscii(Head(name))},
                          rest \in CaseMixes(Tail(name))}

\* name with its first I or S replaced by dotless i or long s
RECURSIVE Exotic(_)
Exotic(name) ==
    IF name = <<>> THEN <<>>
    ELSE IF Head(name) = 73 THEN <<305>> \o Tail(name)
    ELSE IF Head(name) = 83 THEN <<383>> \o Tail(name)
    ELSE <<Head(name)>> \o Exotic(Tail(name))

\* the keys of the README: A-Z, 0-9, F1-F12 and the special keys
ReadmeKeys ==
    {<<c>> : c \in (65..90) \cup (48..57)}
        \cup FunctionKeys
        \cup {SPACE, ENTER, ESC, TAB, UP, DOWN, LEFT, RIGHT}

\* strings that are one character away from a named key
NearMisses ==
    {Append(n, c) : n \in NamedKeys, c \in {48, 51, 88}}
        \cup {<<c>> \o n : n \in NamedKeys, c \in {70, 88}}
        \cup {SubSeq(n, 1, Len(n) - 1) : n \in NamedKeys}
        \cup {SubSeq(n, 1, 1) \o <<32>> \o SubSeq(n, 2, Len(n)) :
                n \in NamedKeys}

Cores ==
    StringsUpTo(MaxLen)
        \cup UNION {CaseMixes(n) : n \in NamedKeys}
        \cup {Exotic(n) : n \in NamedKeys}
        \cup ReadmeKeys
        \cup NearMisses

\* n characters of whitespace
RECURSIVE Pad(_)
Pad(n) == IF n = 0 THEN <<>> ELSE Append(Pad(n - 1), IF n % 2 = 1 THEN 32 ELSE 9)

Inputs == {Pad(l) \o c \o Pad(r) : l \in 0..MaxPad, r \in 0..MaxPad, c \in Cores}

KeyEntries(key) ==
    {[Key |-> key, IntervalMS |-> Int64(ms), Enabled |-> en] :
        ms \in (-1)..MaxMS, en \in BOOLEAN}

\* 9223372036855, the least number of milliseconds that is more than
\* 2^63 - 1 nanoseconds: 0x0863 7BD0 5AF7
LongMS == <<23287, 31696, 2147, 0>>

\* the rows of ResolveSpec: those of KeyEntries and an enabled row with the
\* long interval
ResolveEntries(key) ==
    KeyEntries(key) \cup {[Key |-> key, IntervalMS |-> LongMS, Enabled |-> TRUE]}

(***************************************************************************)
(* The Runner.  Callers are the threads that call Start, Stop and          *)
(* IsRunning; an executor is one goroutine running runTask, numbered in    *)
(* the order of the go statements; its field s is the channel made by the  *)
(* Start call that launched it.                                            *)
(***************************************************************************)
Callers == {1, 2}

Sessions == 1..MaxSessions

ExecIds == 1..MaxExec

\* the tasks handed to Runner.Start: what the handler builds from a
\* one-character key and from a named key, in lists of up to n tasks
TaskPool(p) ==
    {BuildTask(Resolve(p, k).task, [Key |-> k, IntervalMS |-> Int64(1), Enabled |-> TRUE]) :
        k \in {<<97>>, SPACE}}

RECURSIVE TaskLists(_, _)
TaskLists(p, n) ==
    IF n = 0 THEN {<<>>}
    ELSE LET shorter == TaskLists(p, n - 1) IN
         shorter \cup {Append(l, t) : l \in {x \in shorter : Len(x) = n - 1},
                                      t \in TaskPool(p)}

\* the task lists a Start call of a client of the Runner is given on each
\* platform, the empty list included
DarwinLists == TaskLists("darwin", MaxExec)
WindowsLists == TaskLists("windows", MaxExec)
StartLists == IF platform = "darwin" THEN DarwinLists ELSE WindowsLists

\* a goroutine that was not launched
NoExec(p) == [pc |-> "none", task |-> ZeroTask(p), s |-> 0, ch |-> 0]

\* a goroutine that has returned: its locals are gone
DoneExec(p) == [NoExec(p) EXCEPT !.pc = "done"]

\* executors that were launched and have not returned (nor ended with the
\* process)
Alive(e) == exec[e].pc \notin {"none", "done", "exit"}

\* the callers blocked in r.wg.Wait(): the waiters the WaitGroup counts
Sleepers == {t \in Callers : pc[t] = "stop_sleep"}

\* r.wg.Done() by executor e, which goes on as the record after: the counter
\* is decremented; when it reaches zero while callers wait, Done still has
\* to release them, at position wake
Done(e, wake, after) ==
    /\ wg' = wg - 1
    /\ exec' = [exec EXCEPT ![e] =
                    IF wg - 1 = 0 /\ Sleepers # {}
                    THEN [exec[e] EXCEPT !.pc = wake]
                    ELSE after]

\* number of executors launched so far
Launched == Cardinality({e \in ExecIds : exec[e].pc # "none"})

\* Start calls that may still make a channel
StartsInFlight ==
    Cardinality({u \in Callers : pc[u] = "start_check"})

\* number of tasks that the Start calls under way may still launch
RECURSIVE Pending(_)
Pending(cs) ==
    IF cs = {} THEN 0
    ELSE LET u == CHOOSE x \in cs : TRUE IN Len(todo[u]) + Pending(cs \ {u})

RunnerInit ==
    /\ mu = 0
    /\ running = FALSE
    /\ stopCh = 0
    /\ closed = {}
    /\ made = 0
    /\ given = 0
    /\ wg = 0
    /\ pc = [t \in Callers |-> "idle"]
    /\ todo = [t \in Callers |-> <<>>]
    /\ sess = [t \in Callers |-> 0]
    /\ last = [t \in Callers |-> "none"]
    /\ ret = [t \in Callers |-> "none"]
    /\ exec = [e \in ExecIds |-> NoExec(platform)]

(***************************************************************************)
(* Runner.Start                                                            *)
(***************************************************************************)
\* a caller calls Start(tasks) and gets the mutex: r.mu.Lock()
\* (a caller that waits for the mutex is a caller that has not called yet)
CallStart(t, tasks) ==
    /\ pc[t] = "idle"
    /\ mu = 0
    /\ made + StartsInFlight < MaxSessions
    /\ Launched + Pending(Callers) + Len(tasks) <= MaxExec
    /\ mu' = t
    /\ pc' = [pc EXCEPT ![t] = "start_check"]
    /\ todo' = [todo EXCEPT ![t] = tasks]
    /\ sess' = [sess EXCEPT ![t] = 0]
    /\ last' = [last EXCEPT ![t] = "none"]
    /\ ret' = [ret EXCEPT ![t] = "none"]
    /\ UNCHANGED <<running, stopCh, closed, made, given, wg, exec>>
    /\ UNCHANGED others

\* if r.running { r.mu.Unlock(); return }
StartAlready(t) ==
    /\ pc[t] = "start_check"
    /\ running
    /\ mu' = 0
    /\ pc' = [pc EXCEPT ![t] = "idle"]
    /\ todo' = [todo EXCEPT ![t] = <<>>]
    /\ last' = [last EXCEPT ![t] = "Start"]
    /\ UNCHANGED <<running, stopCh, closed, made, given, wg, sess, ret, exec>>
    /\ UNCHANGED others

\* a Start that goes on although the runner is running
StartInit_NoGuard(t) ==
    /\ pc[t] = "start_check"
    /\ running' = TRUE
    /\ made' = made + 1
    /\ given' = Len(todo[t])
    /\ stopCh' = made + 1
    /\ sess' = [sess EXCEPT ![t] = made + 1]
    /\ mu' = 0
    /\ pc' = [pc EXCEPT ![t] = "start_launch"]
    /\ UNCHANGED <<closed, wg, todo, last, ret, exec>>
    /\ UNCHANGED others

\* a Start that makes a channel only when r.stopCh is nil
StartInit_KeepsChannel(t) ==
    /\ pc[t] = "start_check"
    /\ ~running
    /\ running' = TRUE
    /\ made' = made + 1
    /\ given' = Len(todo[t])
    /\ stopCh' = IF stopCh = 0 THEN made + 1 ELSE stopCh
    /\ sess' = [sess EXCEPT ![t] = made + 1]
    /\ mu' = 0
    /\ pc' = [pc EXCEPT ![t] = "start_launch"]
    /\ UNCHANGED <<closed, wg, todo, last, ret, exec>>
    /\ UNCHANGED others

\* a Start that sets the running flag only when it has tasks to launch
StartInit_RunningIfTasks(t) ==
    /\ pc[t] = "start_check"
    /\ ~running
    /\ running' = (todo[t] # <<>>)
    /\ made' = made + 1
    /\ given' = Len(todo[t])
    /\ stopCh' = made + 1
    /\ sess' = [sess EXCEPT ![t] = made + 1]
    /\ mu' = 0
    /\ pc' = [pc EXCEPT ![t] = "start_launch"]
    /\ UNCHANGED <<closed, wg, todo, last, ret, exec>>
    /\ UNCHANGED others

\* r.running = true; r.stopCh = make(chan struct{}); r.mu.Unlock()
StartInit(t) ==
    /\ pc[t] = "start_check"
    /\ ~running
    /\ running' = TRUE
    /\ made' = made + 1
    /\ given' = Len(todo[t])
    /\ stopCh' = made + 1
    /\ sess' = [sess EXCEPT ![t] = made + 1]
    /\ mu' = 0
    /\ pc' = [pc EXCEPT ![t] = "start_launch"]
    /\ UNCHANGED <<closed, wg, todo, last, ret, exec>>
    /\ UNCHANGED others

\* r.wg.Add(1) panics ("WaitGroup misuse: Add called concurrently with
\* Wait"): the counter was zero with waiters that Done has not released yet
StartLaunchPanic(t) ==
    /\ pc[t] = "start_launch"
    /\ todo[t] # <<>>
    /\ wg = 0 /\ Sleepers # {}
    /\ wg' = wg + 1
    /\ pc' = [pc EXCEPT ![t] = "panic"]
    /\ UNCHANGED <<mu, running, stopCh, closed, made, given, todo, sess, last, ret,
                   exec>>
    /\ UNCHANGED others

\* one round of the loop: r.wg.Add(1); go r.runTask(task)
StartLaunch(t) ==
    /\ pc[t] = "start_launch"
    /\ todo[t] # <<>>
    /\ ~(wg = 0 /\ Sleepers # {})
    /\ wg' = wg + 1
    /\ exec' = [exec EXCEPT ![Launched + 1] =
                    [pc |-> "start", task |-> Head(todo[t]), s |-> sess[t],
                     ch |-> 0]]
    /\ todo' = [todo EXCEPT ![t] = Tail(todo[t])]
    /\ UNCHANGED <<mu, running, stopCh, closed, made, given, pc, sess, last, ret>>
    /\ UNCHANGED others

\* the loop is over: Start returns
StartReturn(t) ==
    /\ pc[t] = "start_launch"
    /\ todo[t] = <<>>
    /\ pc' = [pc EXCEPT ![t] = "idle"]
    /\ last' = [last EXCEPT ![t] = "Start"]
    /\ UNCHANGED <<mu, running, stopCh, closed, made, given, wg, todo, sess, ret, exec>>
    /\ UNCHANGED others

(***************************************************************************)
(* Runner.Stop                                                             *)
(***************************************************************************)
\* a caller calls Stop() and gets the mutex: r.mu.Lock()
CallStop(t) ==
    /\ pc[t] = "idle"
    /\ mu = 0
    /\ mu' = t
    /\ pc' = [pc EXCEPT ![t] = "stop_check"]
    /\ sess' = [sess EXCEPT ![t] = 0]
    /\ ret' = [ret EXCEPT ![t] = "none"]
    /\ UNCHANGED <<running, stopCh, closed, made, given, wg, todo, last, exec>>
    /\ UNCHANGED others

\* if !r.running { r.mu.Unlock(); return }
StopIdle(t) ==
    /\ pc[t] = "stop_check"
    /\ ~running
    /\ mu' = 0
    /\ pc' = [pc EXCEPT ![t] = "idle"]
    /\ sess' = [sess EXCEPT ![t] = 0]
    /\ last' = [last EXCEPT ![t] = "Stop"]
    /\ UNCHANGED <<running, stopCh, closed, made, given, wg, todo, ret, exec>>
    /\ UNCHANGED others

\* a Stop that goes on although the runner is not running
StopClose_NoGuard(t) ==
    /\ pc[t] = "stop_check"
    /\ closed' = closed \cup {stopCh}
    /\ running' = FALSE
    /\ mu' = 0
    /\ sess' = [sess EXCEPT ![t] = stopCh]
    /\ pc' = [pc EXCEPT ![t] = "stop_wait"]
    /\ UNCHANGED <<stopCh, made, given, wg, todo, last, ret, exec>>
    /\ UNCHANGED others

\* a Stop that closes the channel and leaves the running flag true
StopClose_KeepsRunning(t) ==
    /\ pc[t] = "stop_check"
    /\ running
    /\ closed' = closed \cup {stopCh}
    /\ mu' = 0
    /\ sess' = [sess EXCEPT ![t] = stopCh]
    /\ pc' = [pc EXCEPT ![t] = "stop_wait"]
    /\ UNCHANGED <<running, stopCh, made, given, wg, todo, last, ret, exec>>
    /\ UNCHANGED others

\* close(r.stopCh); r.running = false; r.mu.Unlock()
StopClose(t) ==
    /\ pc[t] = "stop_check"
    /\ running
    /\ closed' = closed \cup {stopCh}
    /\ running' = FALSE
    /\ mu' = 0
    /\ sess' = [sess EXCEPT ![t] = stopCh]
    /\ pc' = [pc EXCEPT ![t] = "stop_wait"]
    /\ UNCHANGED <<stopCh, made, given, wg, todo, last, ret, exec>>
    /\ UNCHANGED others

\* a Stop that returns without r.wg.Wait()
StopWait_NoJoin(t) ==
    /\ pc[t] = "stop_wait"
    /\ pc' = [pc EXCEPT ![t] = "idle"]
    /\ last' = [last EXCEPT ![t] = "Stop"]
    /\ UNCHANGED <<mu, running, stopCh, closed, made, given, wg, todo, sess, ret, exec>>
    /\ UNCHANGED others

\* r.wg.Wait(): with the counter at zero it returns, and Stop returns;
\* otherwise the caller is counted as a waiter and sleeps (no release of
\* the semaphore is pending, or the caller it was made for has taken it)
StopWait(t) ==
    /\ pc[t] = "stop_wait"
    /\ pc' = [pc EXCEPT ![t] = IF wg = 0 THEN "idle" ELSE "stop_sleep"]
    /\ last' = [last EXCEPT ![t] = IF wg = 0 THEN "Stop" ELSE last[t]]
    /\ UNCHANGED <<mu, running, stopCh, closed, made, given, wg, todo, sess, ret, exec>>
    /\ UNCHANGED others

\* r.wg.Wait() with the counter above zero while the release that Done
\* made for another caller is pending: the caller is counted as a waiter
\* and takes that release, so it goes on to read the state of the
\* WaitGroup; the caller the release was made for finds the semaphore
\* taken when it runs and sleeps again, as the one waiter that is counted
StopWaitTakesRelease(t) ==
    /\ pc[t] = "stop_wait"
    /\ wg # 0
    /\ \E u \in Callers :
        /\ pc[u] = "stop_woken"
        /\ pc' = [pc EXCEPT ![t] = "stop_woken", ![u] = "stop_sleep"]
    /\ UNCHANGED <<mu, running, stopCh, closed, made, given, wg, todo, sess, last, ret, exec>>
    /\ UNCHANGED others

\* the caller runs again with the release of Done and finds the state of
\* the WaitGroup (counter and waiters) at zero: Wait returns, and Stop
\* returns
StopWoken(t) ==
    /\ pc[t] = "stop_woken"
    /\ wg = 0 /\ Sleepers = {}
    /\ pc' = [pc EXCEPT ![t] = "idle"]
    /\ last' = [last EXCEPT ![t] = "Stop"]
    /\ UNCHANGED <<mu, running, stopCh, closed, made, given, wg, todo, sess, ret, exec>>
    /\ UNCHANGED others

\* the caller runs again with the release of Done and finds that a Start
\* has added to the counter since, or that another caller waits: Wait panics
\* ("WaitGroup is reused before previous Wait has returned")
StopWokenPanic(t) ==
    /\ pc[t] = "stop_woken"
    /\ wg # 0 \/ Sleepers # {}
    /\ pc' = [pc EXCEPT ![t] = "panic"]
    /\ UNCHANGED <<mu, running, stopCh, closed, made, given, wg, todo, sess, last,
                   ret, exec>>
    /\ UNCHANGED others

(***************************************************************************)
(* Runner.IsRunning                                                        *)
(***************************************************************************)
\* r.mu.Lock(); defer r.mu.Unlock(); return r.running
IsRunning(t) ==
    /\ pc[t] = "idle"
    /\ mu = 0
    /\ ret' = [ret EXCEPT ![t] = IF running THEN "true" ELSE "false"]
    /\ UNCHANGED <<mu, running, stopCh, closed, made, given, wg, pc, todo, sess, last, exec>>
    /\ UNCHANGED others

(***************************************************************************)
(* Runner.runTask: one executor                                            *)
(***************************************************************************)
\* the channels a read of r.stopCh by an executor may return.  The read is
\* made without the mutex while Start writes the field under it, so it is
\* not ordered with the writes that follow the one of the Start call that
\* launched the executor: it returns the channel of that call or any
\* channel stored in the field since
Observable(e) ==
    {stopCh} \cup {c \in 1..made : c >= exec[e].s /\ c <= stopCh}

\* the code before the loop succeeds (on windows NewKeyBonding and SetKeys
\* for a key-code task, then time.NewTicker(task.Interval), which needs a
\* positive interval) and the select is entered: r.stopCh is read, without
\* the mutex
ExecBegin(e) ==
    /\ exec[e].pc = "start"
    /\ Positive(exec[e].task.Interval)
    /\ \E c \in Observable(e) :
           exec' = [exec EXCEPT ![e].pc = "select", ![e].ch = c]
    /\ UNCHANGED <<mu, running, stopCh, closed, made, given, wg, pc, todo, sess, last, ret>>
    /\ UNCHANGED others

\* windows: keybd_event.NewKeyBonding() fails and runTask returns
\* (the deferred r.wg.Done() runs)
ExecBindFail(e) ==
    /\ exec[e].pc = "start"
    /\ platform = "windows"
    /\ ~exec[e].task.UseUnicode
    /\ Done(e, "wake", DoneExec(platform))
    /\ UNCHANGED <<mu, running, stopCh, closed, made, given, pc, todo, sess, last, ret>>
    /\ UNCHANGED others

\* time.NewTicker(task.Interval) panics: the interval is not positive
\* (on windows after NewKeyBonding and SetKeys succeeded).  The deferred
\* r.wg.Done() runs; nothing recovers the panic, which is then fatal
ExecPanic(e) ==
    /\ exec[e].pc = "start"
    /\ ~Positive(exec[e].task.Interval)
    /\ Done(e, "panic_wake", [exec[e] EXCEPT !.pc = "fatal"])
    /\ UNCHANGED <<mu, running, stopCh, closed, made, given, pc, todo, sess, last, ret>>
    /\ UNCHANGED others

\* r.wg.Done() after the counter reached zero with waiters: it reads the
\* state of the WaitGroup again and finds it as it left it (the counter is
\* still zero), so it goes on to release the waiters
ExecWake(e) ==
    /\ exec[e].pc \in {"wake", "panic_wake"}
    /\ wg = 0
    /\ exec' = [exec EXCEPT ![e].pc =
                    IF exec[e].pc = "wake" THEN "release" ELSE "panic_release"]
    /\ UNCHANGED <<mu, running, stopCh, closed, made, given, wg, pc, todo, sess, last, ret>>
    /\ UNCHANGED others

\* the end of r.wg.Done(): the state of the WaitGroup is set to zero, also
\* when a Start has added to the counter since the state was read, the
\* waiters are released, and runTask returns (or, from the panic of
\* NewTicker, the panic goes on)
ExecRelease(e) ==
    /\ exec[e].pc \in {"release", "panic_release"}
    /\ wg' = 0
    /\ pc' = [t \in Callers |-> IF pc[t] = "stop_sleep" THEN "stop_woken" ELSE pc[t]]
    /\ exec' = [exec EXCEPT ![e] =
                    IF exec[e].pc = "release" THEN DoneExec(platform)
                    ELSE [exec[e] EXCEPT !.pc = "fatal"]]
    /\ UNCHANGED <<mu, running, stopCh, closed, made, given, todo, sess, last, ret>>
    /\ UNCHANGED others

\* r.wg.Done() reads the state of the WaitGroup again and finds that a
\* Start has added to the counter since the decrement: Done panics ("WaitGroup misuse: Add called concurrently with
\* Wait")
ExecWakePanic(e) ==
    /\ exec[e].pc \in {"wake", "panic_wake"}
    /\ wg # 0
    /\ exec' = [exec EXCEPT ![e].pc = "fatal"]
    /\ UNCHANGED <<mu, running, stopCh, closed, made, given, wg, pc, todo, sess, last, ret>>
    /\ UNCHANGED others

\* a panic that nothing recovers ends the process, some time after it was
\* raised: every thread and goroutine is gone
Exit ==
    /\ \/ \E t \in Callers : pc[t] = "panic"
       \/ \E e \in ExecIds : exec[e].pc = "fatal"
    /\ pc' = [t \in Callers |-> "exit"]
    /\ exec' = [e \in ExecIds |->
                    IF Alive(e) THEN [exec[e] EXCEPT !.pc = "exit"] ELSE exec[e]]
    /\ UNCHANGED <<mu, running, stopCh, closed, made, given, wg, todo, sess, last, ret>>
    /\ UNCHANGED others

\* case <-r.stopCh: return (the deferred ticker.Stop() and r.wg.Done() run)
ExecCancel(e) ==
    /\ exec[e].pc = "select"
    /\ exec[e].ch \in closed
    /\ Done(e, "wake", DoneExec(platform))
    /\ UNCHANGED <<mu, running, stopCh, closed, made, given, pc, todo, sess, last, ret>>
    /\ UNCHANGED others

\* case <-ticker.C: a tick is received.  Time is not modelled: a tick may
\* be ready in ticker.C at any moment the executor is in the select, also
\* when the channel is closed (the select then takes either case)
ExecTick(e) ==
    /\ exec[e].pc = "select"
    /\ exec' = [exec EXCEPT ![e].pc = "inject"]
    /\ UNCHANGED <<mu, running, stopCh, closed, made, given, wg, pc, todo, sess, last, ret>>
    /\ UNCHANGED others

\* the injection (keyTapUnicode / keyTap on darwin, sendUnicode /
\* kb.Launching on windows) returns, its outcome is ignored, and the loop
\* enters the select again: r.stopCh is read anew, without the mutex
ExecInject(e) ==
    /\ exec[e].pc = "inject"
    /\ \E c \in Observable(e) :
           exec' = [exec EXCEPT ![e].pc = "select", ![e].ch = c]
    /\ UNCHANGED <<mu, running, stopCh, closed, made, given, wg, pc, todo, sess, last, ret>>
    /\ UNCHANGED others

(***************************************************************************)
(* Specifications.                                                         *)
(***************************************************************************)
\* Spec: Start, Stop and IsRunning called from two threads.
Init ==
    /\ platform \in Platforms
    /\ input = <<>>
    /\ result = <<>>
    /\ entries = <<>>
    /\ built = <<>>
    /\ ui = "idle"
    /\ RunnerInit

Next ==
    \/ \E t \in Callers, tasks \in StartLists : CallStart(t, tasks)
    \/ \E t \in Callers : StartAlready(t)
    \/ \E t \in Callers : StartInit(t)
    \/ \E t \in Callers : StartLaunch(t)
    \/ \E t \in Callers : StartLaunchPanic(t)
    \/ \E t \in Callers : StartReturn(t)
    \/ \E t \in Callers : CallStop(t)
    \/ \E t \in Callers : StopIdle(t)
    \/ \E t \in Callers : StopClose(t)
    \/ \E t \in Callers : StopWait(t)
    \/ \E t \in Callers : StopWaitTakesRelease(t)
    \/ \E t \in Callers : StopWoken(t)
    \/ \E t \in Callers : StopWokenPanic(t)
    \/ \E t \in Callers : IsRunning(t)
    \/ \E e \in ExecIds : ExecBegin(e)
    \/ \E e \in ExecIds : ExecBindFail(e)
    \/ \E e \in ExecIds : ExecCancel(e)
    \/ \E e \in ExecIds : ExecWake(e)
    \/ \E e \in ExecIds : ExecRelease(e)
    \/ \E e \in ExecIds : ExecWakePanic(e)
    \/ \E e \in ExecIds : ExecTick(e)
    \/ \E e \in ExecIds : ExecInject(e)
    \/ Exit

Spec == Init /\ [][Next]_vars

\* SeqSpec: the calls are issued one at a time by a single caller.
SeqNext ==
    \/ \E tasks \in StartLists : CallStart(1, tasks)
    \/ StartAlready(1)
    \/ StartInit(1)
    \/ StartLaunch(1)
    \/ StartReturn(1)
    \/ CallStop(1)
    \/ StopIdle(1)
    \/ StopClose(1)
    \/ StopWait(1)
    \/ StopWoken(1)
    \/ IsRunning(1)
    \/ \E e \in ExecIds : ExecBegin(e)
    \/ \E e \in ExecIds : ExecBindFail(e)
    \/ \E e \in ExecIds : ExecCancel(e)
    \/ \E e \in ExecIds : ExecWake(e)
    \/ \E e \in ExecIds : ExecRelease(e)
    \/ \E e \in ExecIds : ExecTick(e)
    \/ \E e \in ExecIds : ExecInject(e)

SeqSpec == Init /\ [][SeqNext]_vars

\* ResolveSpec: the resolution and the Start button handler applied to
\* every input of Inputs, on both platforms, with the Start call of the
\* handler and the executors it launches.
ResolveInit ==
    /\ platform \in Platforms
    /\ input \in Inputs
    /\ result = <<>>
    /\ entries \in {<<e>> : e \in ResolveEntries(input)}
    /\ built = <<>>
    /\ ui = "idle"
    /\ RunnerInit

\* task, err := parseMacInput(input)  /  parseKeyInput(input)
DoResolve ==
    /\ result = <<>>
    /\ result' = <<Resolve(platform, input)>>
    /\ UNCHANGED <<platform, input, entries, built, ui>>
    /\ UNCHANGED runnerVars

\* setRunningStateMac / setRunningState(running, ...): the buttons
setRunningState(now) == ui' = IF now THEN "running" ELSE "idle"

\* runner.Start(tasks) has returned in the Start handler, which ends with
\* setRunningState(true, ...)
StartHandlerEnds ==
    /\ ui = "starting"
    /\ pc[1] = "idle"
    /\ setRunningState(TRUE)
    /\ UNCHANGED <<platform, input, result, entries, built>>
    /\ UNCHANGED runnerVars

\* the Start button is clicked on the idle runner: runner.IsRunning()
\* returns false, the handler collects the tasks and either returns or goes
\* on to runner.Start(tasks), which takes the mutex
DoStartHandler ==
    /\ built = <<>>
    /\ ui = "idle"
    /\ pc[1] = "idle"
    /\ mu = 0
    /\ ~running
    /\ Len(StartHandler(platform, entries).tasks) <= MaxExec
    /\ built' = <<StartHandler(platform, entries)>>
    /\ ui' = IF StartHandler(platform, entries).started THEN "starting" ELSE ui
    /\ IF StartHandler(platform, entries).started
       THEN /\ mu' = 1
            /\ pc' = [pc EXCEPT ![1] = "start_check"]
            /\ todo' = [todo EXCEPT ![1] = StartHandler(platform, entries).tasks]
            /\ sess' = [sess EXCEPT ![1] = 0]
            /\ last' = [last EXCEPT ![1] = "none"]
            /\ ret' = [ret EXCEPT ![1] = "none"]
            /\ UNCHANGED <<running, stopCh, closed, made, given, wg, exec>>
       ELSE /\ ret' = [ret EXCEPT ![1] = "false"]
            /\ UNCHANGED <<mu, running, stopCh, closed, made, given, wg, pc, todo,
                           sess, last, exec>>
    /\ UNCHANGED <<platform, input, result, entries>>

ResolveNext ==
    \/ DoResolve
    \/ DoStartHandler
    \/ StartInit(1)
    \/ StartLaunch(1)
    \/ StartReturn(1)
    \/ StartHandlerEnds
    \/ \E e \in ExecIds : ExecBegin(e)
    \/ \E e \in ExecIds : ExecBindFail(e)
    \/ \E e \in ExecIds : ExecPanic(e)
    \/ \E e \in ExecIds : ExecTick(e)
    \/ \E e \in ExecIds : ExecInject(e)
    \/ Exit

ResolveSpec == ResolveInit /\ [][ResolveNext]_vars

(***************************************************************************)
(* Claims about the key resolution, checked under ResolveSpec.             *)
(***************************************************************************)
Resolved == result # <<>>

\* s with its ASCII lower-case letters in upper case: the spelling of a
\* key name "in any mix of upper and lower case"
AsciiFold(s) ==
    [i \in DOMAIN s |-> IF s[i] >= 97 /\ s[i] <= 122 THEN s[i] - 32 ELSE s[i]]

\* the key codes of the named keys: on darwin the virtual key codes of
\* Carbon's Events.h (kVK_Space, kVK_Return, ...), on windows the constant
\* of keybd_event with the name of the key
PlatformCode(p, n) ==
    IF p = "darwin"
    THEN CASE n = SPACE -> 49 [] n = ENTER -> 36 [] n = ESC -> 53
           [] n = ESCAPE -> 53 [] n = TAB -> 48 [] n = UP -> 126
           [] n = DOWN -> 125 [] n = LEFT -> 123 [] n = RIGHT -> 124
           [] n = F1 -> 122 [] n = F2 -> 120 [] n = F3 -> 99
           [] n = F4 -> 118 [] n = F5 -> 96 [] n = F6 -> 97
           [] n = F7 -> 98 [] n = F8 -> 100 [] n = F9 -> 101
           [] n = F10 -> 109 [] n = F11 -> 103 [] n = F12 -> 111
    ELSE CASE n = SPACE -> "VK_SPACE" [] n = ENTER -> "VK_ENTER"
           [] n = ESC -> "VK_ESC" [] n = ESCAPE -> "VK_ESC"
           [] n = TAB -> "VK_TAB" [] n = UP -> "VK_UP"
           [] n = DOWN -> "VK_DOWN" [] n = LEFT -> "VK_LEFT"
           [] n = RIGHT -> "VK_RIGHT" [] n = F1 -> "VK_F1"
           [] n = F2 -> "VK_F2" [] n = F3 -> "VK_F3" [] n = F4 -> "VK_F4"
           [] n = F5 -> "VK_F5" [] n = F6 -> "VK_F6" [] n = F7 -> "VK_F7"
           [] n = F8 -> "VK_F8" [] n = F9 -> "VK_F9" [] n = F10 -> "VK_F10"
           [] n = F11 -> "VK_F11" [] n = F12 -> "VK_F12"

\* C7, as stated: every input of exactly one character resolves to the
\* Unicode target of that character.
C7_EverySingleCharacter ==
    (Resolved /\ Len(input) = 1)
        => result[1] = Return(UnicodeTask(platform, input[1]), NilError)

\* C7, amended: every input whose trimmed form has exactly one character
\* resolves, without error, to the Unicode target carrying that character's
\* code point in its original case, with no key code (the letter, digit and
\* named-key tables are not consulted).
C7_TrimmedSingleCharacter ==
    (Resolved /\ Len(TrimSpace(input)) = 1)
        => result[1] = Return(UnicodeTask(platform, TrimSpace(input)[1]), NilError)

\* " a" was resolved: the lower-case letter is the rune to inject
C7_Witness ==
    /\ Resolved
    /\ input = <<32, 97>>
    /\ result[1].task.UseUnicode
    /\ result[1].task.UnicodeRune = 97

\* C8: every input that spells a named key, in any mix of upper and lower
\* case, resolves without error to the key-code target (not Unicode) that
\* holds the platform code of that key; ESC and ESCAPE hold the same code.
C8_NamedKeyCode ==
    /\ PlatformCode(platform, ESC) = PlatformCode(platform, ESCAPE)
    /\ \A n \in NamedKeys :
        (Resolved /\ Len(TrimSpace(input)) > 1 /\ AsciiFold(TrimSpace(input)) = n)
            => /\ result[1].err = NilError
               /\ ~result[1].task.UseUnicode
               /\ result[1].task = KeyCodeTask(platform, PlatformCode(platform, n))

\* "eSCaPe" was resolved on darwin to the key code of ESC
C8_Witness ==
    /\ Resolved
    /\ platform = "darwin"
    /\ input = <<101, 83, 67, 97, 80, 101>>
    /\ result[1].task.KeyCode = 53
    /\ ~result[1].task.UseUnicode

\* C9, as stated: the unsupported-key error carrying the input, and no
\* target, for every input that is empty or whitespace only, and for every
\* input of more than one character (trimmed) that is not the spelling of
\* a named key.
C9_UnsupportedKeyError ==
    (/\ Resolved
     /\ \/ TrimSpace(input) = <<>>
        \/ Len(TrimSpace(input)) > 1 /\ AsciiFold(TrimSpace(input)) \notin NamedKeys)
        => result[1] = Return(ZeroTask(platform), Errorf("unsupported key: %s", input))

\* C9, amended: an input whose trimmed form has more than one character
\* and, upper-cased by strings.ToUpper, is not a named key fails with the
\* error "unsupported key: <input>" carrying the input as given (untrimmed)
\* and with the zero target; an empty or whitespace-only input fails with
\* the error "empty key", which does not carry the input.
C9_ErrorsOfResolution ==
    /\ (Resolved /\ TrimSpace(input) = <<>>)
        => result[1] = Return(ZeroTask(platform), Errorf("empty key", <<>>))
    /\ (/\ Resolved
        /\ Len(TrimSpace(input)) > 1
        /\ ToUpper(TrimSpace(input)) \notin NamedKeys)
        => result[1] = Return(ZeroTask(platform), Errorf("unsupported key: %s", input))

\* " f13" was resolved: the error carries the input with its blank
C9_Witness ==
    /\ Resolved
    /\ input = <<32, 70, 49, 51>>
    /\ ~result[1].err.isNil
    /\ result[1].err.arg = input
    /\ result[1].task = ZeroTask(platform)

\* C10 as stated (ResolveSpec): every key of the README resolves without
\* error on both platforms, and an enabled entry with such a key and a
\* positive interval always becomes a running task: the Start button
\* handler builds one task for it, with a period a ticker can be created
\* with, and hands it to Runner.Start; the runner becomes running, and the
\* executor launched for the task enters its loop and stays in it (no
\* Stop is called under ResolveSpec).
C10_ReadmeKeysResolve ==
    /\ (Resolved /\ input \in ReadmeKeys) => result[1].err.isNil
    /\ (/\ built # <<>>
        /\ input \in ReadmeKeys
        /\ entries[1].Enabled
        /\ Positive(entries[1].IntervalMS))
        => /\ built[1].started
           /\ built[1].errors = <<>>
           /\ built[1].tasks =
                <<BuildTask(Resolve(platform, input).task, entries[1])>>
           /\ Positive(built[1].tasks[1].Interval)
           /\ IF pc[1] = "start_check"
              THEN todo[1] = built[1].tasks
              ELSE running /\ given = 1
           /\ exec[1].pc \in {"none", "start", "select", "inject"}
           /\ exec[1].pc # "none" => exec[1].task = built[1].tasks[1]

(***************************************************************************)
(* Fairness.  A caller inside Start or Stop goes on; a launched executor   *)
(* runs, its ticker keeps ticking, and its select, which picks at random   *)
(* among the ready cases, does not pass over the closed channel for ever.  *)
(* Nothing obliges a caller to make a call.                                *)
(***************************************************************************)
CallerFairness(t) ==
    WF_vars(\/ StartAlready(t) \/ StartInit(t) \/ StartLaunch(t)
            \/ StartLaunchPanic(t) \/ StartReturn(t) \/ StopIdle(t)
            \/ StopClose(t) \/ StopWait(t) \/ StopWaitTakesRelease(t)
            \/ StopWoken(t) \/ StopWokenPanic(t))

ExecFairness(e) ==
    /\ WF_vars(ExecBegin(e) \/ ExecBindFail(e))
    /\ WF_vars(ExecWake(e) \/ ExecWakePanic(e))
    /\ WF_vars(ExecRelease(e))
    /\ WF_vars(ExecTick(e))
    /\ WF_vars(ExecInject(e))
    /\ SF_vars(ExecCancel(e))

FairSpec ==
    /\ Spec
    /\ \A t \in Callers : CallerFairness(t)
    /\ \A e \in ExecIds : ExecFairness(e)
    /\ WF_vars(Exit)

SeqFairSpec ==
    /\ SeqSpec
    /\ CallerFairness(1)
    /\ \A e \in ExecIds : ExecFairness(e)

(***************************************************************************)
(* Claims about the Runner.                                                *)
(***************************************************************************)
\* C1 (SeqSpec): once a Stop call of the single caller has returned, and
\* until the caller's next Start call, no executor is alive, so none is
\* injecting.
C1_NoExecutorAfterStop ==
    last[1] = "Stop"
        => \A e \in ExecIds : ~Alive(e) /\ exec[e].pc # "inject"

\* the Stop of the second session has returned and joined two executors
C1_Witness ==
    /\ last[1] = "Stop"
    /\ sess[1] = 2
    /\ pc[1] = "idle"
    /\ \A e \in 1..2 : exec[e].pc = "done"

\* C2 (Spec, two callers): when a Stop call that found the runner running
\* has returned, every executor of the Start that made it running has been
\* launched and has exited: none is alive, none is still to be launched.
C2_StopJoinsItsSession ==
    \A t \in Callers :
        (last[t] = "Stop" /\ sess[t] # 0)
            => /\ \A e \in ExecIds : Alive(e) => exec[e].s # sess[t]
               /\ \A u \in Callers :
                    (pc[u] = "start_launch" /\ sess[u] = sess[t])
                        => todo[u] = <<>>

\* C3 (Spec): the step by which a Start call that finds the runner running
\* goes on (the process has not ended) is its return: it leaves the running flag (true), the channel,
\* the closed channels, the wait group and every executor as they are.
C3_StartWhileRunning ==
    [][\A t \in Callers :
        (pc[t] = "start_check" /\ running /\ pc'[t] \notin {"start_check", "exit"})
            => /\ pc'[t] = "idle"
               /\ running'
               /\ UNCHANGED <<stopCh, closed, made, wg, exec>>]_vars

\* a Start call has returned without effect while an executor of the
\* running session is alive
C3_Witness ==
    \E t \in Callers :
        /\ last[t] = "Start"
        /\ sess[t] = 0
        /\ running
        /\ \E e \in ExecIds : Alive(e) /\ exec[e].s = stopCh

\* C4 (Spec): the step by which a Stop call that finds the running flag
\* false goes on (the process has not ended) is its return (it does not
\* wait): it leaves the flag, the
\* channel, the closed channels, the wait group and every executor as they
\* are.
C4_StopWhileIdle ==
    [][\A t \in Callers :
        (pc[t] = "stop_check" /\ ~running /\ pc'[t] \notin {"stop_check", "exit"})
            => /\ pc'[t] = "idle"
               /\ ~running'
               /\ UNCHANGED <<stopCh, closed, made, wg, exec>>]_vars

\* a Stop call has returned on a runner that was never started
C4_Witness ==
    \E t \in Callers :
        /\ last[t] = "Stop"
        /\ pc[t] = "idle"
        /\ made = 0
        /\ stopCh = 0

\* C5 (SeqSpec): the running flag, and what IsRunning returns, is false
\* before the first call, true once a Start call has returned, false once
\* a Stop call has returned; while the runner is running its channel is
\* one that was never closed, and it is the channel the executors in their
\* select wait on, so they tick until the next Stop.
C5_TwoStateCycle ==
    /\ (pc[1] = "idle" /\ last[1] = "none") => ~running
    /\ (pc[1] = "idle" /\ last[1] = "Start") => running
    /\ last[1] = "Stop" => ~running
    /\ ret[1] # "none" => ret[1] = (IF last[1] = "Start" THEN "true" ELSE "false")
    /\ running
        => /\ stopCh # 0
           /\ stopCh \notin closed
           /\ \A e \in ExecIds :
                exec[e].pc = "select" => exec[e].ch = stopCh

\* in the second session IsRunning returned true and an executor of that
\* session is injecting
C5_Witness ==
    /\ made = 2
    /\ stopCh = 2
    /\ last[1] = "Start"
    /\ ret[1] = "true"
    /\ \E e \in ExecIds : exec[e].pc = "inject" /\ exec[e].s = 2

\* C6 (FairSpec): every Stop call returns.
C6_StopReturns ==
    \A t \in Callers :
        (pc[t] \in {"stop_check", "stop_wait", "stop_sleep", "stop_woken"})
            ~> (pc[t] = "idle")

\* C12 (SeqSpec): when a Start call given no task on an idle runner has
\* returned, the running flag is true, IsRunning returns true, and no
\* executor is alive, so none injects; the Stop call that follows does not
\* wait (the wait group counter is zero), and when it has returned the
\* flag is false and IsRunning returns false.
C12_EmptyStart ==
    /\ (pc[1] = "idle" /\ last[1] = "Start" /\ sess[1] # 0 /\ given = 0)
        => /\ running
           /\ ret[1] \in {"none", "true"}
           /\ wg = 0
           /\ \A e \in ExecIds : ~Alive(e) /\ exec[e].pc # "inject"
    /\ (pc[1] = "stop_wait" /\ given = 0) => wg = 0
    /\ given = 0 => pc[1] \notin {"stop_sleep", "stop_woken"}
    /\ (last[1] = "Stop" /\ made > 0 /\ given = 0)
        => ~running /\ ret[1] \in {"none", "false"}

\* the Stop call that followed a Start with no task has returned, and
\* IsRunning has returned false since
C12_Witness ==
    /\ last[1] = "Stop"
    /\ pc[1] = "idle"
    /\ sess[1] # 0
    /\ sess[1] = made
    /\ given = 0
    /\ ret[1] = "false"

\* C13 (SeqSpec): an executor exits only on cancellation: the step by which
\* an executor leaves its code for the deferred r.wg.Done() is taken from
\* its select, on a channel that has been closed; no failure of its task
\* makes it return.
C13_ExitsOnlyOnCancellation ==
    [][\A e \in ExecIds :
        (exec[e].pc \in {"start", "select", "inject"}
            /\ exec'[e].pc \in {"wake", "done"})
            => exec[e].pc = "select" /\ exec[e].ch \in closed]_vars

\* C14 as stated (Spec): in every reachable state, if the running flag is
\* true then an executor is alive and the current channel exists and is
\* not closed.
C14_RunningHasExecutor ==
    running
        => /\ \E e \in ExecIds : Alive(e)
           /\ stopCh # 0
           /\ stopCh \notin closed

\* C14 amended (Spec): in every reachable state, if the running flag is
\* true then the current channel exists, is the one made last, and is not
\* closed (nothing is said of the executors).
C14_RunningHasOpenChannel ==
    running
        => /\ stopCh # 0
           /\ stopCh = made
           /\ stopCh \notin closed

\* the runner is running, the Start call that was given tasks has returned,
\* no call is under way, and no executor is alive
C14_Witness ==
    /\ running
    /\ given > 0
    /\ \A t \in Callers : pc[t] = "idle"
    /\ \E t \in Callers : last[t] = "Start" /\ sess[t] = stopCh
    /\ \A e \in ExecIds : ~Alive(e)

\* C15 (Spec), in the reading most favourable to the claim, which as
\* stated speaks of every reachable state and of every live executor: the
\* states in which a Stop call has closed the channel and has not returned
\* yet are set aside (there the flag is false by the order of the
\* statements of Stop), and only the executors that can still inject are
\* counted.  If the running flag is false and no Stop call is between its
\* close and its return, no executor can still inject.
C15_IdleHasNoExecutor ==
    (/\ ~running
     /\ \A t \in Callers : pc[t] \notin {"stop_wait", "stop_sleep", "stop_woken"})
        => \A e \in ExecIds : exec[e].pc \notin {"start", "select", "inject"}

\* C16 (SeqSpec): once the channel of a session is closed, no executor of
\* that session receives a tick and begins an injection.
C16_NoInjectionAfterClose ==
    [][\A e \in ExecIds :
        (exec[e].pc = "select" /\ exec'[e].pc = "inject")
            => exec[e].s \notin closed]_vars

\* C18 as stated (ResolveSpec): resolving an input and resolving the input
\* with its leading and trailing whitespace removed give the same outcome:
\* the same target and the same error.
C18_TrimmedSameOutcome ==
    Resolved => result[1] = Resolve(platform, TrimSpace(input))

\* C18 amended (ResolveSpec): resolving an input and resolving its trimmed
\* form give the same target and fail in the same way (no error, "empty
\* key", or "unsupported key"); the unsupported-key error of each carries
\* the input it was given, so the two errors differ when the input has
\* whitespace around it.
C18_TrimmedSameTarget ==
    Resolved =>
        LET r == result[1]
            t == Resolve(platform, TrimSpace(input))
        IN  /\ r.task = t.task
            /\ r.err.isNil = t.err.isNil
            /\ r.err.format = t.err.format
            /\ r.err.format = "unsupported key: %s"
                => r.err.arg = input /\ t.err.arg = TrimSpace(input)

\* an input with whitespace around it was resolved and is unsupported
C18_Witness ==
    /\ Resolved
    /\ input # TrimSpace(input)
    /\ Len(TrimSpace(input)) >= 2
    /\ result[1].err.format = "unsupported key: %s"
    /\ result[1].err # Resolve(platform, TrimSpace(input)).err

\* the letter and digit rule of the build would match key
LetterDigitFound(p, key) ==
    IF p = "darwin" THEN macLetterDigit(key).found ELSE winLetterDigit(key).found

\* C19 (ResolveSpec): the letter and digit rule never produces the result.
\* Whenever the upper-cased trimmed input is one byte long, or the letter
\* and digit rule would match it, the trimmed input is one character and
\* the result is the Unicode target of that character; and every key-code
\* target comes from the named keys.
C19_LetterDigitRuleDead ==
    Resolved =>
        LET r == result[1]
            key == ToUpper(TrimSpace(input))
        IN  /\ (ByteLen(key) = 1 \/ LetterDigitFound(platform, key))
                => /\ Len(TrimSpace(input)) = 1
                   /\ r.err.isNil
                   /\ r.task = UnicodeTask(platform, TrimSpace(input)[1])
            /\ (r.err.isNil /\ ~r.task.UseUnicode) => key \in NamedKeys

\* a letter whose upper case is one byte long, and that the letter rule
\* would match, was resolved to a Unicode target
C19_Witness ==
    /\ Resolved
    /\ TrimSpace(input) \in {<<97>>, <<383>>}
    /\ LetterDigitFound(platform, ToUpper(TrimSpace(input)))
    /\ result[1].task.UseUnicode

(***************************************************************************)
(* The user interface: the rows of KeyEntry and the handlers of the Add,   *)
(* Remove, Start and Stop buttons, run one at a time by the UI thread,     *)
(* which is caller 1 of the Runner.  A handler runs when the UI thread is  *)
(* free and its button is enabled: setRunningState disables Add, Remove    *)
(* and Start and enables Stop at the end of the Start handler, and the     *)
(* reverse at the end of the Stop handler.                                 *)
(***************************************************************************)
MaxEntries == 2    \* most rows of KeyEntry

\* a value of type interface{}, as parseInterval and SetValue are given
\* one: its dynamic type and the value.  The integers are 64-bit as above
\* (an int32 is given by the int64 of the same value); a float64 is given
\* by its number of tenths n, for the value n / 10
IntValue(n) == [kind |-> "int", v |-> n]
Int32Value(n) == [kind |-> "int32", v |-> n]
Int64Value(n) == [kind |-> "int64", v |-> n]
Float64Value(n) == [kind |-> "float64", v |-> n]
StringValue(s) == [kind |-> "string", v |-> s]
BoolValue(b) == [kind |-> "bool", v |-> b]

\* a / 10 and a % 10 of a non-negative a
DivMod10(a) ==
    LET t4 == a[4]
        t3 == (t4 % 10) * 65536 + a[3]
        t2 == (t3 % 10) * 65536 + a[2]
        t1 == (t2 % 10) * 65536 + a[1]
    IN  [q |-> <<t1 \div 10, t2 \div 10, t3 \div 10, t4 \div 10>>, r |-> t1 % 10]

\* the decimal digits of a positive a, read without sign
RECURSIVE Digits(_)
Digits(a) ==
    IF a = <<0, 0, 0, 0>> THEN <<>>
    ELSE Append(Digits(DivMod10(a).q), 48 + DivMod10(a).r)

\* the text of an integer in base 10, as %v prints it
FormatInt(a) ==
    IF a = <<0, 0, 0, 0>> THEN <<48>>
    ELSE IF Negative(a) THEN <<45>> \o Digits(Neg64(a))
    ELSE Digits(a)

\* int(v) of the float64 of n tenths: the fraction is dropped
TruncTenths(n) == IF n >= 0 THEN Int64(n \div 10) ELSE Int64(0 - ((0 - n) \div 10))

\* the decimal digits of a natural number m, none for zero
RECURSIVE NatDigits(_)
NatDigits(m) == IF m = 0 THEN <<>> ELSE Append(NatDigits(m \div 10), 48 + (m % 10))

\* s without its trailing zeros
RECURSIVE StripZeros(_)
StripZeros(s) ==
    IF s # <<>> /\ s[Len(s)] = 48 THEN StripZeros(SubSeq(s, 1, Len(s) - 1)) ELSE s

\* the exponent of the %e form: a sign and at least two digits
FormatExp(x) == <<101, 43>> \o (IF x < 10 THEN <<48>> ELSE <<>>) \o NatDigits(x)

\* the text of the float64 of n tenths, as %v prints it (%g with the
\* shortest digits): "1.9", "-0.5", "2", and from one million on the
\* exponent form "1e+06", "1.5e+06"
FormatTenths(n) ==
    LET m == IF n >= 0 THEN n ELSE 0 - n
        sign == IF n < 0 THEN <<45>> ELSE <<>>
        whole == FormatInt(Int64(m \div 10))
        digits == StripZeros(NatDigits(m))
    IN  IF m >= 10000000
        THEN sign \o <<digits[1]>>
                  \o (IF Len(digits) > 1 THEN <<46>> \o Tail(digits) ELSE <<>>)
                  \o FormatExp(Len(NatDigits(m)) - 2)
        ELSE IF m % 10 = 0 THEN sign \o whole
        ELSE sign \o whole \o <<46, 48 + (m % 10)>>

\* fmt.Sprintf("%v", value)
Sprintv(value) ==
    CASE value.kind = "string" -> value.v
      [] value.kind = "bool" ->
            IF value.v THEN <<116, 114, 117, 101>> ELSE <<102, 97, 108, 115, 101>>
      [] value.kind = "float64" -> FormatTenths(value.v)
      [] OTHER -> FormatInt(value.v)

\* strings.EqualFold(s, "true"): the letters t, r, u, e have no other case
\* variant than their capital
EqualFoldTrue(s) ==
    /\ Len(s) = 4
    /\ s[1] \in {116, 84}
    /\ s[2] \in {114, 82}
    /\ s[3] \in {117, 85}
    /\ s[4] \in {101, 69}

IsDigit(c) == c >= 48 /\ c <= 57

\* the number written by a sequence of decimal digits, as far as it fits
\* in 64 bits: over tells that it does not
RECURSIVE DigitsValue(_)
DigitsValue(s) ==
    IF s = <<>> THEN [over |-> FALSE, n |-> Int64(0)]
    ELSE LET front == DigitsValue(SubSeq(s, 1, Len(s) - 1))
             sum == <<front.n[1] * 10 + (s[Len(s)] - 48), front.n[2] * 10,
                      front.n[3] * 10, front.n[4] * 10>>
         IN  [over |-> front.over \/ Carry64(sum) > 0, n |-> Wrap64(sum)]

\* strconv.Atoi: an optional sign and decimal digits; a number outside
\* -2^63 .. 2^63 - 1 is an error
Atoi(s) ==
    LET signed == s # <<>> /\ Head(s) \in {43, 45}
        minus == signed /\ Head(s) = 45
        digits == IF signed THEN Tail(s) ELSE s
    IN  IF digits = <<>> \/ \E i \in DOMAIN digits : ~IsDigit(digits[i])
        THEN [ok |-> FALSE, n |-> Int64(0)]
        ELSE LET d == DigitsValue(digits) IN
             IF \/ d.over
                \/ (Negative(d.n) /\ ~(minus /\ d.n = <<0, 0, 0, 32768>>))
             THEN [ok |-> FALSE, n |-> Int64(0)]
             ELSE [ok |-> TRUE, n |-> IF minus THEN Neg64(d.n) ELSE d.n]

\* parseInterval(value)
parseInterval(value) ==
    CASE value.kind \in {"int", "int32", "int64"} -> value.v
      [] value.kind = "float64" -> TruncTenths(value.v)
      [] value.kind = "string" ->
            LET trimmed == TrimSpace(value.v) IN
            IF trimmed = <<>> THEN Int64(0)
            ELSE IF ~Atoi(trimmed).ok THEN Int64(0)
            ELSE Atoi(trimmed).n
      [] OTHER -> Int64(0)

\* entries := []*KeyEntry{{Key: "A", IntervalMS: 1000, Enabled: true}}
InitialEntries ==
    <<[Key |-> <<65>>, IntervalMS |-> Int64(1000), Enabled |-> TRUE]>>

\* what the user types as a key: "A", "space", "zz" and a blank
KeyTexts == {<<65>>, <<115, 112, 97, 99, 101>>, <<122, 122>>, <<32>>}

\* what the user types as an interval: "1000" (the text the dialog starts
\* with), " 0 " and "x"
IntervalTexts == {<<49, 48, 48, 48>>, <<32, 48, 32>>, <<120>>}

\* s without the element at the 0-based position index
RemoveAt(s, index) == SubSeq(s, 1, index) \o SubSeq(s, index + 2, Len(s))

\* what keyEdit.Text() and intervalEd.Text() give once the dialog of the
\* windows build is closed: walk has released the dialog with its widgets
\* when Run returns, and a released widget has no text and is not checked
ReleasedText == <<>>

\* the row showAddDialog makes of a dialog that was accepted.  On darwin the
\* callback of the form builds it from the fields it has validated; on
\* windows it is built after Dialog.Run has returned, from the widgets
\* read again
AddedEntry(p, key, interval, enabled) ==
    IF p = "darwin"
    THEN [Key |-> key, IntervalMS |-> interval, Enabled |-> enabled]
    ELSE [Key |-> TrimSpace(ReleasedText),
          IntervalMS |-> parseInterval(StringValue(ReleasedText)),
          Enabled |-> FALSE]

\* the Add button, which is enabled, and its dialog with the given fields
\* and its Add button pressed: the fields are validated (the dialog stays
\* open on a blank key or an interval that is not positive, and is then
\* cancelled) and the row of the accepted dialog is appended
AddClicked(keyText, intervalText, enabled) ==
    /\ ui = "idle"
    /\ pc[1] = "idle"
    /\ Len(entries) < MaxEntries
    /\ LET key == TrimSpace(keyText)
           interval == parseInterval(StringValue(intervalText))
       IN  entries' =
               IF key = <<>> \/ ~Positive(interval) THEN entries
               ELSE Append(entries, AddedEntry(platform, key, interval, enabled))
    /\ UNCHANGED <<platform, input, result, built, ui>>
    /\ UNCHANGED runnerVars

\* the Remove button, which is enabled, with the row at index selected
\* (-1: no row)
RemoveClicked(index) ==
    /\ ui = "idle"
    /\ pc[1] = "idle"
    /\ entries' =
           IF index < 0 \/ index >= Len(entries) THEN entries
           ELSE RemoveAt(entries, index)
    /\ UNCHANGED <<platform, input, result, built, ui>>
    /\ UNCHANGED runnerVars

\* what SetValue stores in the row for a column; for a column other than
\* 0, 1, 2 it returns with the row as it is
SetCell(entry, col, value) ==
    CASE col = 0 -> [entry EXCEPT !.Key = TrimSpace(Sprintv(value))]
      [] col = 1 -> [entry EXCEPT !.IntervalMS = parseInterval(value)]
      [] col = 2 -> [entry EXCEPT !.Enabled =
                        IF value.kind = "bool" THEN value.v
                        ELSE EqualFoldTrue(Sprintv(value))]
      [] OTHER -> entry

\* a SetValue that also rewrites the interval of the running tasks
SetValue_Live(row, col, value) ==
    /\ ui \in {"idle", "running"}
    /\ pc[1] = "idle"
    /\ platform = "windows"
    /\ row \in 0..(Len(entries) - 1)
    /\ entries' = [entries EXCEPT ![row + 1] = SetCell(@, col, value)]
    /\ exec' = [e \in ExecIds |->
           IF col = 1 /\ Alive(e)
           THEN [exec[e] EXCEPT !.task.Interval =
                                   Mul64(parseInterval(value), Int64(Millisecond))]
           ELSE exec[e]]
    /\ UNCHANGED <<platform, input, result, built, ui>>
    /\ UNCHANGED <<mu, running, stopCh, closed, made, given, wg, pc, todo, sess,
                   last, ret>>

\* windows: KeyTableModel.SetValue(row, col, value) on a row of the table,
\* which no handler disables
SetValue(row, col, value) ==
    /\ ui \in {"idle", "running"}
    /\ pc[1] = "idle"
    /\ platform = "windows"
    /\ row \in 0..(Len(entries) - 1)
    /\ entries' = [entries EXCEPT ![row + 1] = SetCell(@, col, value)]
    /\ UNCHANGED <<platform, input, result, built, ui>>
    /\ UNCHANGED runnerVars

\* windows: KeyTableModel.SetValue with a row that the table does not have:
\* m.items[row] panics in the UI thread
SetValuePanic(row) ==
    /\ ui \in {"idle", "running"}
    /\ pc[1] = "idle"
    /\ platform = "windows"
    /\ row \notin 0..(Len(entries) - 1)
    /\ pc' = [pc EXCEPT ![1] = "panic"]
    /\ UNCHANGED <<mu, running, stopCh, closed, made, given, wg, todo, sess, last,
                   ret, exec>>
    /\ UNCHANGED others

\* the values SetValue is given for a column: texts for the key, or the
\* number 1000000.0; an interval as a text or as a number of any type, or
\* a value of another type; the check box as a bool, a text or a number
ColumnValues(col) ==
    CASE col = 0 -> {StringValue(t) : t \in KeyTexts}
                    \cup {Float64Value(10000000)}
      [] col = 1 -> {IntValue(Int64(0)), Int32Value(Int64(1000)),
                     Int64Value(Int64(1000)), Float64Value(9), BoolValue(TRUE)}
                    \cup {StringValue(t) : t \in IntervalTexts}
      [] col = 2 -> {BoolValue(TRUE), BoolValue(FALSE),
                     StringValue(<<84, 114, 117, 101>>), IntValue(Int64(1))}
      [] OTHER -> {BoolValue(TRUE)}

\* the Start button, which is enabled: if runner.IsRunning() { return }
StartClicked ==
    /\ ui = "idle"
    /\ pc[1] = "idle"
    /\ mu = 0
    /\ running \/ (made < MaxSessions /\
                   Launched + Len(StartHandler(platform, entries).tasks) <= MaxExec)
    /\ pc' = [pc EXCEPT ![1] = "click"]
    /\ ret' = [ret EXCEPT ![1] = IF running THEN "true" ELSE "false"]
    /\ UNCHANGED <<mu, running, stopCh, closed, made, given, wg, todo, sess, last, exec>>
    /\ UNCHANGED others

\* a Start handler that calls runner.Start whatever it collected
StartHandlerCalls_AnyList ==
    /\ pc[1] = "click"
    /\ ret[1] = "false"
    /\ built' = <<StartHandler(platform, entries)>>
    /\ mu' = 1
    /\ pc' = [pc EXCEPT ![1] = "start_check"]
    /\ todo' = [todo EXCEPT ![1] = StartHandler(platform, entries).tasks]
    /\ sess' = [sess EXCEPT ![1] = 0]
    /\ last' = [last EXCEPT ![1] = "none"]
    /\ ret' = [ret EXCEPT ![1] = "none"]
    /\ UNCHANGED <<running, stopCh, closed, made, given, wg, exec>>
    /\ ui' = "starting"
    /\ UNCHANGED <<platform, input, result, entries>>

\* the Start handler goes on to runner.Start(tasks), which takes the mutex
StartHandlerCalls ==
    /\ pc[1] = "click"
    /\ ret[1] = "false"
    /\ StartHandler(platform, entries).started
    /\ built' = <<StartHandler(platform, entries)>>
    /\ mu' = 1
    /\ pc' = [pc EXCEPT ![1] = "start_check"]
    /\ todo' = [todo EXCEPT ![1] = StartHandler(platform, entries).tasks]
    /\ sess' = [sess EXCEPT ![1] = 0]
    /\ last' = [last EXCEPT ![1] = "none"]
    /\ ret' = [ret EXCEPT ![1] = "none"]
    /\ UNCHANGED <<running, stopCh, closed, made, given, wg, exec>>
    /\ ui' = "starting"
    /\ UNCHANGED <<platform, input, result, entries>>

\* the Start handler returns without runner.Start: the runner is running,
\* or no task was built
StartHandlerReturns ==
    /\ pc[1] = "click"
    /\ ret[1] = "true" \/ ~StartHandler(platform, entries).started
    /\ built' = IF ret[1] = "true" THEN built
                ELSE <<StartHandler(platform, entries)>>
    /\ pc' = [pc EXCEPT ![1] = "idle"]
    /\ UNCHANGED <<mu, running, stopCh, closed, made, given, wg, todo, sess, last,
                   ret, exec>>
    /\ UNCHANGED <<platform, input, result, entries, ui>>

\* the Stop button, which is enabled: runner.Stop() takes the mutex
StopClicked ==
    /\ ui = "running"
    /\ pc[1] = "idle"
    /\ mu = 0
    /\ ui' = "stopping"
    /\ mu' = 1
    /\ pc' = [pc EXCEPT ![1] = "stop_check"]
    /\ sess' = [sess EXCEPT ![1] = 0]
    /\ ret' = [ret EXCEPT ![1] = "none"]
    /\ UNCHANGED <<running, stopCh, closed, made, given, wg, todo, last, exec>>
    /\ UNCHANGED <<platform, input, result, entries, built>>

\* runner.Stop() has returned in the Stop handler, which ends with
\* setRunningState(false, ...)
StopHandlerEnds ==
    /\ ui = "stopping"
    /\ pc[1] = "idle"
    /\ setRunningState(FALSE)
    /\ UNCHANGED <<platform, input, result, entries, built>>
    /\ UNCHANGED runnerVars

\* UISpec: the program, from main on.
UIInit ==
    /\ platform \in Platforms
    /\ input = <<>>
    /\ result = <<>>
    /\ entries = InitialEntries
    /\ built = <<>>
    /\ ui = "idle"
    /\ RunnerInit

UINext ==
    \/ \E k \in KeyTexts, i \in IntervalTexts, en \in BOOLEAN : AddClicked(k, i, en)
    \/ \E index \in (-1)..(MaxEntries - 1) : RemoveClicked(index)
    \/ \E row \in 0..(MaxEntries - 1), col \in 0..3 :
            \E value \in ColumnValues(col) : SetValue(row, col, value)
    \/ \E row \in 0..(MaxEntries - 1) : SetValuePanic(row)
    \/ StartClicked
    \/ StartHandlerCalls
    \/ StartHandlerReturns
    \/ StartInit(1)
    \/ StartLaunch(1)
    \/ StartReturn(1)
    \/ StartHandlerEnds
    \/ StopClicked
    \/ StopClose(1)
    \/ StopWait(1)
    \/ StopWoken(1)
    \/ StopHandlerEnds
    \/ \E e \in ExecIds : ExecBegin(e)
    \/ \E e \in ExecIds : ExecBindFail(e)
    \/ \E e \in ExecIds : ExecCancel(e)
    \/ \E e \in ExecIds : ExecWake(e)
    \/ \E e \in ExecIds : ExecRelease(e)
    \/ \E e \in ExecIds : ExecTick(e)
    \/ \E e \in ExecIds : ExecInject(e)
    \/ Exit

UISpec == UIInit /\ [][UINext]_vars

\* IntervalSpec: the same program with the key "space" and with long
\* intervals typed: "9223372036855" (the least number of milliseconds that
\* is more than 2^63 - 1 nanoseconds) and "288230376151711744" (2^58); the
\* row the program starts with has 1000
SpaceKeyTexts == {<<115, 112, 97, 99, 101>>}

LongIntervalTexts ==
    {<<57, 50, 50, 51, 51, 55, 50, 48, 51, 54, 56, 53, 53>>,
     <<50, 56, 56, 50, 51, 48, 51, 55, 54, 49, 53, 49, 55, 49, 49, 55, 52, 52>>}

\* the values SetValue is given for a column in IntervalSpec
LongColumnValues(col) ==
    CASE col = 0 -> {StringValue(t) : t \in SpaceKeyTexts}
      [] col = 1 -> {StringValue(t) : t \in LongIntervalTexts}
      [] OTHER -> {BoolValue(TRUE), BoolValue(FALSE)}

IntervalNext ==
    \/ \E k \in SpaceKeyTexts, i \in LongIntervalTexts, en \in BOOLEAN :
            AddClicked(k, i, en)
    \/ \E index \in (-1)..(MaxEntries - 1) : RemoveClicked(index)
    \/ \E row \in 0..(MaxEntries - 1), col \in 0..2 :
            \E value \in LongColumnValues(col) : SetValue(row, col, value)
    \/ \E row \in 0..(MaxEntries - 1) : SetValuePanic(row)
    \/ StartClicked
    \/ StartHandlerCalls
    \/ StartHandlerReturns
    \/ StartInit(1)
    \/ StartLaunch(1)
    \/ StartReturn(1)
    \/ StartHandlerEnds
    \/ StopClicked
    \/ StopClose(1)
    \/ StopWait(1)
    \/ StopWoken(1)
    \/ StopHandlerEnds
    \/ \E e \in ExecIds : ExecBegin(e)
    \/ \E e \in ExecIds : ExecBindFail(e)
    \/ \E e \in ExecIds : ExecPanic(e)
    \/ \E e \in ExecIds : ExecCancel(e)
    \/ \E e \in ExecIds : ExecWake(e)
    \/ \E e \in ExecIds : ExecRelease(e)
    \/ \E e \in ExecIds : ExecTick(e)
    \/ \E e \in ExecIds : ExecInject(e)
    \/ Exit

IntervalSpec == UIInit /\ [][IntervalNext]_vars

(***************************************************************************)
(* HandlerSpec: the Start button handler applied to lists of rows.         *)
(***************************************************************************)
\* the keys of the rows: "a", " f1 ", "space", "zz", " " and ""
HandlerKeys ==
    {<<97>>, <<32, 102, 49, 32>>, <<115, 112, 97, 99, 101>>, <<122, 122>>,
     <<32>>, <<>>}

HandlerEntries == UNION {KeyEntries(k) : k \in HandlerKeys}

RECURSIVE EntryLists(_)
EntryLists(n) ==
    IF n = 0 THEN {<<>>}
    ELSE LET shorter == EntryLists(n - 1) IN
         shorter \cup {Append(l, e) : l \in {x \in shorter : Len(x) = n - 1},
                                      e \in HandlerEntries}

HandlerInit ==
    /\ platform \in Platforms
    /\ input = <<>>
    /\ result = <<>>
    /\ entries \in EntryLists(MaxEntries)
    /\ built = <<>>
    /\ ui = "idle"
    /\ RunnerInit

HandlerNext ==
    \/ DoStartHandler
    \/ StartInit(1)
    \/ StartLaunch(1)
    \/ StartReturn(1)
    \/ StartHandlerEnds
    \/ \E e \in ExecIds : ExecBegin(e)
    \/ \E e \in ExecIds : ExecBindFail(e)
    \/ \E e \in ExecIds : ExecTick(e)
    \/ \E e \in ExecIds : ExecInject(e)

HandlerSpec == HandlerInit /\ [][HandlerNext]_vars

(***************************************************************************)
(* Claims about the Start button handler and the rows.                     *)
(***************************************************************************)
\* a row that is enabled, with a positive interval and a key that is not
\* blank
Eligible(e) == e.Enabled /\ Positive(e.IntervalMS) /\ TrimSpace(e.Key) # <<>>

\* an eligible row whose key resolves
ValidEntry(p, e) == Eligible(e) /\ Resolve(p, e.Key).err.isNil

\* an eligible row whose key does not resolve
FailingEntry(p, e) == Eligible(e) /\ ~Resolve(p, e.Key).err.isNil

\* one task per valid row, in the order of the rows: the target the key
\* resolves to and the interval of the row
ExpectedTasks(p, es) ==
    LET valid == SelectSeq(es, LAMBDA e : ValidEntry(p, e)) IN
    [i \in 1..Len(valid) |->
        [Resolve(p, valid[i].Key).task EXCEPT
            !.Interval = Mul64(valid[i].IntervalMS, Int64(Millisecond))]]

\* one error per failing row, in the order of the rows
ExpectedErrors(p, es) ==
    LET failing == SelectSeq(es, LAMBDA e : FailingEntry(p, e)) IN
    [i \in 1..Len(failing) |-> Resolve(p, failing[i].Key).err]

\* C11 (UISpec): the Start handler that found the runner idle calls
\* Runner.Start exactly when a row yields a task, with the tasks of those
\* rows; otherwise it returns and leaves the runner as it is, not running,
\* and the buttons as they are.  The Runner.Start it called sets the
\* running flag.
C11_StartNeedsATask ==
    [][/\ (pc[1] = "click" /\ ret[1] = "false" /\ pc'[1] # "click")
            => IF \E i \in DOMAIN entries : ValidEntry(platform, entries[i])
               THEN /\ pc'[1] = "start_check"
                    /\ todo'[1] = ExpectedTasks(platform, entries)
                    /\ ui' = "starting"
               ELSE /\ pc'[1] = "idle"
                    /\ ~running'
                    /\ ui' = "idle"
                    /\ UNCHANGED <<running, stopCh, closed, made, given, wg,
                                   todo, exec>>
       /\ (pc[1] = "start_check" /\ pc'[1] # "start_check")
            => /\ pc'[1] = "start_launch"
               /\ running'
               /\ given' = Len(todo[1])]_vars

\* the runner was started from two rows, one whose key resolves and one
\* whose key does not
C11_Witness ==
    /\ ui = "running"
    /\ pc[1] = "idle"
    /\ last[1] = "Start"
    /\ running
    /\ built # <<>>
    /\ Len(built[1].tasks) = 1
    /\ Len(built[1].errors) = 1
    /\ given = 1

\* C17 (HandlerSpec): the tasks the handler built, which are the tasks it
\* passes to Runner.Start (it makes no call without a task), are one task
\* per row that is enabled, has a positive interval, a key that is not
\* blank and that resolves, in the order of the rows, each with the
\* resolved target and the interval of its row; the errors are those of the
\* eligible rows whose key does not resolve.
C17_OneTaskPerValidEntry ==
    built # <<>>
        => /\ built[1].tasks = ExpectedTasks(platform, entries)
           /\ built[1].errors = ExpectedErrors(platform, entries)
           /\ built[1].started = (built[1].tasks # <<>>)
           /\ pc[1] = "start_check" => todo[1] = built[1].tasks
           /\ ~built[1].started => pc[1] = "idle" /\ ~running

\* the handler ran on two rows: the key of the first does not resolve, the
\* second is valid and was passed to Runner.Start
C17_Witness ==
    /\ built # <<>>
    /\ pc[1] = "start_check"
    /\ Len(todo[1]) = 1
    /\ Len(entries) = 2
    /\ FailingEntry(platform, entries[1])
    /\ ValidEntry(platform, entries[2])
    /\ Len(built[1].tasks) = 1
    /\ Len(built[1].errors) = 1

\* C20 (UISpec): a step that changes the rows changes no executor, nor the
\* wait group, the tasks still to launch, the flag or the channel, and
\* while the runner is running no row is added or removed; every executor
\* alive runs a task of the list built by the Start handler that started
\* the session; and the Start handler that calls Runner.Start passes the
\* tasks of the rows as they are then.
C20_TasksAreASnapshot ==
    /\ [][/\ entries' # entries
                => UNCHANGED <<exec, wg, todo, running, stopCh, closed>>
          /\ Len(entries') # Len(entries) => ~running
          /\ (pc[1] = "click" /\ pc'[1] = "start_check")
                => todo'[1] = ExpectedTasks(platform, entries)]_vars
    /\ [](\A e \in ExecIds :
            Alive(e) =>
                /\ built # <<>>
                /\ \E k \in DOMAIN built[1].tasks :
                        exec[e].task = built[1].tasks[k])

\* an executor is injecting for a task that the rows, edited since the
\* Start, would no longer give
C20_Witness ==
    /\ running
    /\ ui = "running"
    /\ pc[1] = "idle"
    /\ \E e \in ExecIds :
        /\ exec[e].pc = "inject"
        /\ \A k \in DOMAIN ExpectedTasks(platform, entries) :
                ExpectedTasks(platform, entries)[k] # exec[e].task

(***************************************************************************)
(* C21 as stated: an executor waits only on the cancellation channel of    *)
(* the session that launched it: whenever an executor is in its select,    *)
(* the channel it waits on is the one made by the Start call that launched *)
(* it, so that closing that channel ends it.  The code reads the field     *)
(* r.stopCh at every entry of the select, and a Start of another thread    *)
(* may have replaced the channel in between.                               *)
(***************************************************************************)
C21_WaitsOnOwnChannel ==
    \A e \in ExecIds : exec[e].pc = "select" => exec[e].ch = exec[e].s

(***************************************************************************)
(* C22 as stated: Stop never closes a nil channel or a channel that is     *)
(* already closed, so Stop never panics.  In every interleaving of the     *)
(* calls of two threads, the step of Stop that executes close(r.stopCh)    *)
(* finds in r.stopCh a channel that a Start made and that no Stop has      *)
(* closed, and closes that channel and no other; the set of closed         *)
(* channels changes in no other step; and no step of a Stop call is a      *)
(* panic.  The close is safe, but r.wg.Wait() panics when a Start of       *)
(* another thread has added to the WaitGroup before the released waiter    *)
(* runs again.                                                             *)
(***************************************************************************)
C22_StopNeverPanics ==
    [][/\ \A t \in Callers :
            (pc[t] = "stop_check" /\ pc'[t] = "stop_wait")
                => /\ stopCh \in 1..made
                   /\ stopCh \notin closed
                   /\ closed' = closed \cup {stopCh}
                   /\ sess'[t] = stopCh
       /\ closed' # closed
            => \E t \in Callers : pc[t] = "stop_check" /\ pc'[t] = "stop_wait"
       /\ \A t \in Callers :
            pc[t] \in {"stop_check", "stop_wait", "stop_sleep", "stop_woken"}
                => pc'[t] # "panic"]_vars

(***************************************************************************)
(* C23 as stated: every task the Start handler passes to Runner.Start has  *)
(* a strictly positive Interval, whatever integer the row holds, so that   *)
(* no executor creates its ticker with a period that is not positive and   *)
(* panics.  The handler tests IntervalMS > 0 and then multiplies by        *)
(* time.Millisecond in 64 bits: the product of a row of 9223372036855 ms   *)
(* wraps to a negative Duration.                                           *)
(***************************************************************************)
C23_IntervalsPositive ==
    /\ \A i \in DOMAIN todo[1] : Positive(todo[1][i].Interval)
    /\ \A e \in ExecIds :
        /\ Alive(e) => Positive(exec[e].task.Interval)
        /\ exec[e].pc \notin {"panic_wake", "panic_release", "fatal"}
====
